---- MODULE Spec2Model ----
(***************************************************************************)
(* Ledger core of rust-blockchain: a hash-chained sequence of blocks whose *)
(* payload lives in a prunable Merkle tree, secured by a proof-of-work     *)
(* nonce search (src/src/blockchain.rs, block.rs, merkle_tree.rs; the      *)
(* earlier single-file version is src/src/lib.rs).                         *)
(*                                                                         *)
(* Digest idealisation.  SHA-256 is an external library.  A digest is      *)
(* modelled as collision free: the value of Sha256(input) records the      *)
(* input it digested, so two digests are equal exactly when their inputs   *)
(* are.  The 32 bytes the code inspects for the proof-of-work target are   *)
(* a deterministic pseudo-random image of that value (HashBytes).          *)
(***************************************************************************)
EXTENDS Integers, Sequences, FiniteSets, TLC

(***************************************************************************)
(* Bounds of the model.                                                    *)
(***************************************************************************)
\* append calls are started only while the chain holds fewer blocks
MaxChain == 3
\* the nonce search is followed up to this nonce
MaxNonce == 400
\* trees are built from item sequences of at most this length
MaxLen == 4
\* the nonce search is started at nonces up to this one
MaxStart == 40

(***************************************************************************)
(* Program constants.                                                      *)
(***************************************************************************)
\* const ZEROS : u8 = 5
ZEROS == 5
\* type SHAHash = [u8; 32]
HashLen == 32
\* type Nonce = u128: 16 bytes
NonceBytes == 16

\* the threads that append to the chain, and "no thread"
Writers == {1, 2}
NoWriter == 0

\* payload sequences the writers build their trees from
Payloads == {<<1>>, <<2, 1, 2>>}

(***************************************************************************)
(* Hash values.  A hash value is a record [pre, mix]: pre is what was      *)
(* digested (the chunks chained into the hasher, in order), mix a seed     *)
(* computed from it that fixes the 32 bytes.  Raw(bytes) wraps a byte      *)
(* string chained into a hasher in the same shape.                         *)
(***************************************************************************)
\* static INITIAL_HASH : SHAHash = [0u8; 32]
INITIAL_HASH == [pre |-> <<>>, mix |-> 0]

\* a byte string chained into a hasher; its seed reads the length and the
\* last two bytes
Raw(bytes) ==
    LET n == Len(bytes)
    IN  [pre |-> bytes,
         mix |-> (bytes[n] * 251 + (IF n > 1 THEN bytes[n - 1] * 17 ELSE 0) + n) % 32749]

RECURSIVE MixChunks(_, _, _)
MixChunks(chunks, i, acc) ==
    IF i > Len(chunks) THEN acc
    ELSE MixChunks(chunks, i + 1,
                   (acc * 131 + ((chunks[i].mix * chunks[i].mix) % 32749) + i) % 32749)

\* Sha256::new().chain(c1).chain(c2)...finalize(): collision-free digest
Sha256(chunks) == [pre |-> chunks, mix |-> MixChunks(chunks, 1, 17)]

\* the 32 bytes of a hash value, as block.rs reads them (hash[i], hash.iter())
HashBytes(h) ==
    IF h.pre = <<>> THEN [i \in 1..HashLen |-> 0]
    ELSE [i \in 1..HashLen |->
             (((h.mix * h.mix) \div 128) * (2 * i - 1) + (i - 1) * 89 + h.mix) % 256]

(***************************************************************************)
(* Merkle tree (merkle_tree.rs).  Option<T> is <<>> (None) or <<t>>.        *)
(***************************************************************************)
None == <<>>
Some(t) == <<t>>

Leaf(h, d) == [kind |-> "Leaf", hash |-> h, data |-> d]
Node(h, l, r) == [kind |-> "Node", hash |-> h, left |-> l, right |-> r]

IsLeaf(t) == t.kind = "Leaf"

\* T: AsRef<[u8]>: the bytes of a payload item, chained into a hasher
ItemBytes(x) == Raw(<<x>>)

get_root_hash(t) == t.hash

\* slice.chunks(size): the k-th chunk (k from 0) of data, <<>> past the end
Chunk(data, size, k) ==
    SubSeq(data, k * size + 1,
           IF (k + 1) * size < Len(data) THEN (k + 1) * size ELSE Len(data))

\* faulty variant of MerkleTreeNew: a node's hash digests its left child only
RECURSIVE MerkleTreeNewLeftOnly(_)
MerkleTreeNewLeftOnly(data) ==
    IF Len(data) = 1
    THEN Leaf(Sha256(<<ItemBytes(data[1])>>), Some(data[1]))
    ELSE LET size == Len(data) \div 2
             left_subtree == MerkleTreeNewLeftOnly(Chunk(data, size, 0))
             right_subtree == MerkleTreeNewLeftOnly(Chunk(data, size, 1))
         IN  Node(Sha256(<<get_root_hash(left_subtree)>>), left_subtree, right_subtree)

RECURSIVE MerkleTreeNew(_)
MerkleTreeNew(data) ==
    IF Len(data) = 1
    THEN Leaf(Sha256(<<ItemBytes(data[1])>>), Some(data[1]))
    ELSE LET size == Len(data) \div 2
             left_subtree == MerkleTreeNew(Chunk(data, size, 0))
             right_subtree == MerkleTreeNew(Chunk(data, size, 1))
         IN  Node(Sha256(<<get_root_hash(left_subtree), get_root_hash(right_subtree)>>),
                  left_subtree, right_subtree)

\* faulty variant of verify: an inner node is judged by its own hash alone,
\* its children are not verified
verify_root_only(t) ==
    IF IsLeaf(t)
    THEN IF t.data = None THEN TRUE
         ELSE t.hash = Sha256(<<ItemBytes(t.data[1])>>)
    ELSE t.hash = Sha256(<<get_root_hash(t.left), get_root_hash(t.right)>>)

RECURSIVE MerkleVerify(_)
MerkleVerify(t) ==
    IF IsLeaf(t)
    THEN IF t.data = None THEN TRUE
         ELSE t.hash = Sha256(<<ItemBytes(t.data[1])>>)
    ELSE LET valid_root == t.hash = Sha256(<<get_root_hash(t.left), get_root_hash(t.right)>>)
             valid_children == MerkleVerify(t.left) /\ MerkleVerify(t.right)
         IN  valid_root /\ valid_children

RECURSIVE get_currently_stored_data(_)
get_currently_stored_data(t) ==
    IF IsLeaf(t) THEN t.data
    ELSE get_currently_stored_data(t.left) \o get_currently_stored_data(t.right)

\* the number of leaves of t, present or absent
RECURSIVE LeafCount(_)
LeafCount(t) == IF IsLeaf(t) THEN 1 ELSE LeafCount(t.left) + LeafCount(t.right)

\* MerkleTree::contains_hash
RECURSIVE contains_hash(_, _)
contains_hash(t, search_hash) ==
    IF IsLeaf(t) THEN t.hash = search_hash
    ELSE \/ t.hash = search_hash
         \/ contains_hash(t.left, search_hash)
         \/ contains_hash(t.right, search_hash)

\* what a &mut self method leaves behind: self after the call, and its result
Outcome(t, r) == [self |-> t, ret |-> r]

\* faulty variant of restore_element: the element is put into the first leaf
\* without comparing its digest with the hash the leaf stores
RECURSIVE restore_element_unchecked(_, _)
restore_element_unchecked(t, element) ==
    IF IsLeaf(t)
    THEN Outcome(Leaf(t.hash, Some(element)), TRUE)
    ELSE LET l == restore_element_unchecked(t.left, element)
         IN  Outcome([t EXCEPT !.left = l.self], TRUE)

\* MerkleTree::restore_element: the leftmost leaf with the element's hash
\* gets the element, whether or not it holds a payload already
RECURSIVE restore_element(_, _)
restore_element(t, element) ==
    LET element_hash == Sha256(<<ItemBytes(element)>>)
    IN  IF IsLeaf(t)
        THEN IF t.hash = element_hash
             THEN Outcome(Leaf(t.hash, Some(element)), TRUE)
             ELSE Outcome(t, FALSE)
        ELSE LET l == restore_element(t.left, element)
             IN  IF l.ret THEN Outcome([t EXCEPT !.left = l.self], TRUE)
                 ELSE LET r == restore_element(t.right, element)
                      IN  Outcome([t EXCEPT !.right = r.self], r.ret)

\* faulty variant of insert_subtree: only the root and its two children are
\* compared, the subtrees are not searched
insert_subtree_shallow(t, subtree) ==
    IF get_root_hash(t) = get_root_hash(subtree) THEN Outcome(subtree, TRUE)
    ELSE IF IsLeaf(t) THEN Outcome(t, FALSE)
    ELSE IF get_root_hash(t.left) = get_root_hash(subtree)
         THEN Outcome([t EXCEPT !.left = subtree], TRUE)
    ELSE IF get_root_hash(t.right) = get_root_hash(subtree)
         THEN Outcome([t EXCEPT !.right = subtree], TRUE)
    ELSE Outcome(t, FALSE)

\* faulty variant of insert_subtree: every node with the hash is replaced
RECURSIVE insert_subtree_everywhere(_, _)
insert_subtree_everywhere(t, subtree) ==
    IF get_root_hash(t) = get_root_hash(subtree) THEN Outcome(subtree, TRUE)
    ELSE IF IsLeaf(t) THEN Outcome(t, FALSE)
    ELSE LET l == insert_subtree_everywhere(t.left, subtree)
             r == insert_subtree_everywhere(t.right, subtree)
         IN  Outcome([t EXCEPT !.left = l.self, !.right = r.self], l.ret \/ r.ret)

\* MerkleTree::insert_subtree
RECURSIVE insert_subtree(_, _)
insert_subtree(t, subtree) ==
    IF get_root_hash(t) = get_root_hash(subtree) THEN Outcome(subtree, TRUE)
    ELSE IF IsLeaf(t) THEN Outcome(t, FALSE)
    ELSE IF get_root_hash(t.left) = get_root_hash(subtree)
         THEN Outcome([t EXCEPT !.left = subtree], TRUE)
    ELSE IF get_root_hash(t.right) = get_root_hash(subtree)
         THEN Outcome([t EXCEPT !.right = subtree], TRUE)
    ELSE IF contains_hash(t.left, get_root_hash(subtree))
         THEN LET l == insert_subtree(t.left, subtree)
              IN  Outcome([t EXCEPT !.left = l.self], l.ret)
    ELSE IF contains_hash(t.right, get_root_hash(subtree))
         THEN LET r == insert_subtree(t.right, subtree)
              IN  Outcome([t EXCEPT !.right = r.self], r.ret)
    ELSE Outcome(t, FALSE)

\* faulty variant of restore_subtree: the subtree found is replaced
restore_subtree_replacing(t, subtree) == insert_subtree(t, subtree)

\* MerkleTree::restore_subtree: false // ToDo
restore_subtree(t, subtree) == Outcome(t, FALSE)

\* faulty variant of shrink_to_minimum: the leaf left behind has no hash
shrink_to_blank(t) == Leaf(INITIAL_HASH, None)

\* MerkleTree::shrink_to_minimum
shrink_to_minimum(t) == Leaf(get_root_hash(t), None)

\* faulty variant of forget_leaf: every present leaf equal to the element
RECURSIVE forget_leaf_eager(_, _)
forget_leaf_eager(t, element) ==
    IF IsLeaf(t)
    THEN IF t.data = None THEN Outcome(t, FALSE)
         ELSE IF t.data[1] = element THEN Outcome(Leaf(t.hash, None), TRUE)
         ELSE Outcome(t, FALSE)
    ELSE LET l == forget_leaf_eager(t.left, element)
             r == forget_leaf_eager(t.right, element)
         IN  Outcome([t EXCEPT !.left = l.self, !.right = r.self], l.ret \/ r.ret)

\* faulty variant of forget_leaf: the hash goes with the payload
RECURSIVE forget_leaf_and_hash(_, _)
forget_leaf_and_hash(t, element) ==
    IF IsLeaf(t)
    THEN IF t.data = None THEN Outcome(t, FALSE)
         ELSE IF t.data[1] = element THEN Outcome(Leaf(INITIAL_HASH, None), TRUE)
         ELSE Outcome(t, FALSE)
    ELSE LET l == forget_leaf_and_hash(t.left, element)
         IN  IF l.ret THEN Outcome([t EXCEPT !.left = l.self], TRUE)
             ELSE LET r == forget_leaf_and_hash(t.right, element)
                  IN  Outcome([t EXCEPT !.right = r.self], r.ret)

\* MerkleTree::forget_leaf: the leftmost present leaf equal to the element
RECURSIVE forget_leaf(_, _)
forget_leaf(t, element) ==
    IF IsLeaf(t)
    THEN IF t.data = None THEN Outcome(t, FALSE)
         ELSE IF t.data[1] = element THEN Outcome(Leaf(t.hash, None), TRUE)
         ELSE Outcome(t, FALSE)
    ELSE LET l == forget_leaf(t.left, element)
         IN  IF l.ret THEN Outcome([t EXCEPT !.left = l.self], TRUE)
             ELSE LET r == forget_leaf(t.right, element)
                  IN  Outcome([t EXCEPT !.right = r.self], r.ret)

\* faulty variant of forget_all_leaves: the right subtree is not visited
RECURSIVE forget_all_leaves_left_only(_)
forget_all_leaves_left_only(t) ==
    IF IsLeaf(t) THEN Leaf(t.hash, None)
    ELSE [t EXCEPT !.left = forget_all_leaves_left_only(t.left)]

\* faulty variant of forget_all_leaves: a node is cut down to its hash
forget_all_leaves_cutting(t) == Leaf(t.hash, None)

\* MerkleTree::forget_all_leaves
RECURSIVE forget_all_leaves(_)
forget_all_leaves(t) ==
    IF IsLeaf(t) THEN Leaf(t.hash, None)
    ELSE [t EXCEPT !.left = forget_all_leaves(t.left),
                   !.right = forget_all_leaves(t.right)]

\* faulty variant of forget_subtree: both subtrees are searched (| for ||)
RECURSIVE forget_subtree_eager(_, _)
forget_subtree_eager(t, hash) ==
    IF hash = get_root_hash(t) THEN Outcome(shrink_to_minimum(t), TRUE)
    ELSE IF IsLeaf(t) THEN Outcome(t, FALSE)
    ELSE LET l == forget_subtree_eager(t.left, hash)
             r == forget_subtree_eager(t.right, hash)
         IN  Outcome([t EXCEPT !.left = l.self, !.right = r.self], l.ret \/ r.ret)

\* MerkleTree::forget_subtree
RECURSIVE forget_subtree(_, _)
forget_subtree(t, hash) ==
    IF hash = get_root_hash(t) THEN Outcome(shrink_to_minimum(t), TRUE)
    ELSE IF IsLeaf(t) THEN Outcome(t, FALSE)
    ELSE LET l == forget_subtree(t.left, hash)
         IN  IF l.ret THEN Outcome([t EXCEPT !.left = l.self], TRUE)
             ELSE LET r == forget_subtree(t.right, hash)
                  IN  Outcome([t EXCEPT !.right = r.self], r.ret)

(***************************************************************************)
(* XML export and import.  A text is a sequence of one-character strings.  *)
(* The markup of a document (tags, attribute names, quotes) is kept as a   *)
(* record; the attribute values are the texts the formatting produces and  *)
(* the parsing consumes.                                                   *)
(***************************************************************************)
HexChars == <<"0", "1", "2", "3", "4", "5", "6", "7",
              "8", "9", "a", "b", "c", "d", "e", "f">>

\* {:x} of a u8: lower-case hexadecimal, no padding
LowerHex(byte) ==
    IF byte < 16 THEN <<HexChars[byte + 1]>>
    ELSE <<HexChars[(byte \div 16) + 1], HexChars[(byte % 16) + 1]>>

\* {:x?} of a [u8; 32]: the Debug form of an array, "[e0, e1, ...]"
RECURSIVE DebugElements(_, _)
DebugElements(bytes, i) ==
    IF i > HashLen THEN <<>>
    ELSE (IF i = 1 THEN <<>> ELSE <<",", " ">>) \o LowerHex(bytes[i])
            \o DebugElements(bytes, i + 1)

LowerHexDebug(bytes) == <<"[">> \o DebugElements(bytes, 1) \o <<"]">>

\* to_string of a payload item: its decimal digits
RECURSIVE to_string(_)
to_string(n) ==
    IF n < 10 THEN <<HexChars[n + 1]>>
    ELSE to_string(n \div 10) \o <<HexChars[(n % 10) + 1]>>

\* MerkleTree::export_xml
RECURSIVE export_xml(_)
export_xml(t) ==
    IF IsLeaf(t)
    THEN IF t.data = None
         THEN [tag |-> "leaf", hash |-> LowerHexDebug(HashBytes(t.hash)), data |-> None]
         ELSE [tag |-> "leaf", hash |-> LowerHexDebug(HashBytes(t.hash)),
               data |-> Some(to_string(t.data[1]))]
    ELSE [tag |-> "node", hash |-> LowerHexDebug(HashBytes(t.hash)),
          left |-> export_xml(t.left), right |-> export_xml(t.right)]

HexValue(c) == CHOOSE d \in 0..15 : HexChars[d + 1] = c

\* SHAHash::from_hex(text).ok(): two hexadecimal digits for each byte and
\* nothing else
from_hex(text) ==
    IF /\ Len(text) = 2 * HashLen
       /\ \A i \in 1..Len(text) : \E d \in 0..15 : HexChars[d + 1] = text[i]
    THEN Some([i \in 1..HashLen |->
                 16 * HexValue(text[2 * i - 1]) + HexValue(text[2 * i])])
    ELSE None

\* T::from_str(text).ok(): decimal digits
RECURSIVE DecimalValue(_)
DecimalValue(text) ==
    IF text = <<>> THEN 0
    ELSE 10 * DecimalValue(SubSeq(text, 1, Len(text) - 1)) + HexValue(text[Len(text)])

from_str(text) ==
    IF /\ text # <<>>
       /\ \A i \in 1..Len(text) : \E d \in 0..9 : HexChars[d + 1] = text[i]
    THEN Some(DecimalValue(text))
    ELSE None

\* MerkleTree::import_xml (the body in the comment): Some(tree), the hashes
\* of the tree being the 32 bytes read, or None
RECURSIVE import_xml(_)
import_xml(xml) ==
    IF xml.tag = "leaf"
    THEN LET hash == from_hex(xml.hash)
         IN  IF hash = None THEN None
             ELSE IF xml.data # None
             THEN LET data == from_str(xml.data[1])
                  IN  IF data = None THEN None
                      ELSE Some(Leaf(hash[1], Some(data[1])))
             ELSE Some(Leaf(hash[1], None))
    ELSE IF xml.tag = "node"
    THEN LET hash == from_hex(xml.hash)
         IN  IF hash = None THEN None
             ELSE LET left == import_xml(xml.left)
                  IN  IF left = None THEN None
                      ELSE LET right == import_xml(xml.right)
                           IN  IF right = None THEN None
                               ELSE Some(Node(hash[1], left[1], right[1]))
    ELSE None

(***************************************************************************)
(* Block (block.rs).                                                       *)
(***************************************************************************)
Block(prev, n, tree) == [prev_hash |-> prev, nonce |-> n, merkle_tree |-> tree]

\* Block::new
BlockNew(previous_hash, data) == Block(previous_hash, 0, data)

\* u128::MAX, the top of the nonce width.  The nonces next to the top are
\* written as residues modulo 2^(8 * NonceBytes): n < 0 stands for the
\* value 2^128 + n, so u128::MAX is 0 - 1
u128_MAX == 0 - 1

\* the unsigned value of nonce a is below that of nonce b
NonceLess(a, b) ==
    IF a < 0 THEN b < 0 /\ a < b
    ELSE b < 0 \/ a < b

\* self.nonce.to_be_bytes(): the 16 bytes of the nonce, most significant
\* first; the nonces the model reaches lie within 2^24 of 0 or of the top,
\* so the upper 13 bytes are all 0 or all 255
ToBeBytes(n) ==
    LET low == IF n < 0 THEN 256 ^ 3 + n ELSE n
    IN  [i \in 1..NonceBytes |->
            IF NonceBytes - i > 2 THEN (IF n < 0 THEN 255 ELSE 0)
            ELSE (low \div (256 ^ (NonceBytes - i))) % 256]

\* faulty variant of calculate_hash: the tree is digested with its payloads
calculate_hash_with_payload(b) ==
    Sha256(<<b.prev_hash, Raw(ToBeBytes(b.nonce)),
             [pre |-> b.merkle_tree,
              mix |-> get_root_hash(b.merkle_tree).mix
                        + Len(get_currently_stored_data(b.merkle_tree))]>>)

\* Block::calculate_hash
calculate_hash(b) ==
    Sha256(<<b.prev_hash, Raw(ToBeBytes(b.nonce)), get_root_hash(b.merkle_tree)>>)

\* last_mixed_byte & pattern != 0, pattern = 0b1000_0000 >> k
BitSet(byte, k) == (byte \div (2 ^ (7 - k))) % 2 = 1

\* faulty variant of the leading-zero check: the pattern starts one bit low
LeadingZerosLowPattern(bytes, z) ==
    LET NO_OF_NULL_BYTES == z \div 8
        NO_OF_0_BITS == z % 8
    IN  IF \E i \in 1..NO_OF_NULL_BYTES : bytes[i] # 0 THEN FALSE
        ELSE IF NO_OF_0_BITS = 0 THEN TRUE
        ELSE LET last_mixed_byte == bytes[NO_OF_NULL_BYTES + 1]
             IN  \A k \in 1..NO_OF_0_BITS : ~BitSet(last_mixed_byte, k)

\* the leading-zero check of verify_nonce on the bytes of a hash, for difficulty z
LeadingZeros(bytes, z) ==
    LET NO_OF_NULL_BYTES == z \div 8
        NO_OF_0_BITS == z % 8
    IN  IF \E i \in 1..NO_OF_NULL_BYTES : bytes[i] # 0 THEN FALSE
        ELSE IF NO_OF_0_BITS = 0 THEN TRUE
        ELSE LET last_mixed_byte == bytes[NO_OF_NULL_BYTES + 1]
             IN  \A k \in 0..(NO_OF_0_BITS - 1) : ~BitSet(last_mixed_byte, k)

\* Block::verify_nonce: let hash = self.calculate_hash(), then the check
verify_nonce(b) ==
    \E hash \in {calculate_hash(b)} : LeadingZeros(HashBytes(hash), ZEROS)

verify_merkle_tree(b) == MerkleVerify(b.merkle_tree)

\* Block::verify
BlockVerify(b) == verify_nonce(b) /\ verify_merkle_tree(b)

\* the first nonce from n on that meets the target, or n + Stride if none of
\* the next Stride nonces does
Stride == {0, 1, 2, 3, 4, 5, 6, 7, 8, 9, 10, 11, 12, 13, 14, 15}
FirstHit(b, n) ==
    LET none == n + Cardinality(Stride)
    IN  CHOOSE k \in n..none :
            /\ k = none \/ verify_nonce([b EXCEPT !.nonce = k])
            /\ \A j \in n..(k - 1) : ~verify_nonce([b EXCEPT !.nonce = j])

\* the nonce the loop of calculate_nonce stops at, started at nonce n
\* (while !self.verify_nonce() { self.nonce += 1 }), followed a stride of
\* nonces at a time; a value above MaxNonce: the loop is still running there
RECURSIVE SearchNonce(_, _)
SearchNonce(b, n) ==
    IF n > MaxNonce THEN n
    ELSE IF \E k \in {n + d : d \in Stride} : verify_nonce([b EXCEPT !.nonce = k])
         THEN FirstHit(b, n)
         ELSE SearchNonce(b, n + Cardinality(Stride))

NonceFound(b) == SearchNonce(b, b.nonce) <= MaxNonce

\* faulty variant of calculate_nonce: one increment instead of the loop
calculate_nonce_once(b) ==
    IF verify_nonce(b) THEN b ELSE [b EXCEPT !.nonce = b.nonce + 1]

\* faulty variant of calculate_nonce: the search starts over at nonce 0
calculate_nonce_from_zero(b) == [b EXCEPT !.nonce = SearchNonce(b, 0)]

\* the block after calculate_nonce returned
calculate_nonce(b) == [b EXCEPT !.nonce = SearchNonce(b, b.nonce)]

\* Block::clear_merkle_tree
clear_merkle_tree(b) == [b EXCEPT !.merkle_tree = shrink_to_minimum(@)]

\* faulty variant of restore_merkle_tree: the tree handed in is not verified
restore_merkle_tree_unverified(b, given) ==
    IF get_root_hash(given) = get_root_hash(b.merkle_tree)
    THEN Outcome([b EXCEPT !.merkle_tree = given], TRUE)
    ELSE Outcome(b, FALSE)

\* faulty variant of restore_merkle_tree: a tree that passes the two tests
\* but holds fewer payloads than the block's tree is answered with true
\* and not taken
restore_merkle_tree_keeping(b, given) ==
    IF MerkleVerify(given) /\ get_root_hash(given) = get_root_hash(b.merkle_tree)
    THEN IF Len(get_currently_stored_data(given)) < Len(get_currently_stored_data(b.merkle_tree))
         THEN Outcome(b, TRUE)
         ELSE Outcome([b EXCEPT !.merkle_tree = given], TRUE)
    ELSE Outcome(b, FALSE)

\* Block::restore_merkle_tree
restore_merkle_tree(b, given) ==
    IF MerkleVerify(given) /\ get_root_hash(given) = get_root_hash(b.merkle_tree)
    THEN Outcome([b EXCEPT !.merkle_tree = given], TRUE)
    ELSE Outcome(b, FALSE)

(***************************************************************************)
(* Blockchain (blockchain.rs).                                             *)
(***************************************************************************)
VARIABLES
    blocks,        \* Blockchain::blocks
    append_mutex,  \* Blockchain::append_mutex: the writer holding it, or NoWriter
    pc,            \* where each writer stands in append_data / append_block
    caller,        \* which entry point the writer called
    new_block,     \* append_data's new_block / append_block's block argument
    valid_block,   \* append_block's local valid_block
    valid_link,    \* append_block's local valid_link_to_prev_block
    ret,           \* what append_block returned
    returned,      \* what append_data returned
    start_tip,     \* history: hash_of_last_block() as append_data read it
    start_blocks,  \* history: the chain when the call started
    attempts,      \* history: append_block calls made by the current append_data
    solo,          \* history: the writer whose append_data call no other call overlaps
    goal,          \* the payload a retrying caller still has to get appended,
                   \* and whether a call for it was rejected before
    tampered,      \* history: how a stored block was tampered with, or "no"
    input,         \* the argument the tree or block at hand was constructed from
    mtree,         \* a MerkleTree its owner calls methods on (self)
    mtree_was,     \* history: mtree before the last call
    blk,           \* a Block its owner calls methods on (self)
    blk_was,       \* history: blk before the last call
    call,          \* history: the last call made on mtree or blk, and its result
    pending        \* the items a caller restoring a tree has still to hand in

locals == <<pc, caller, new_block, valid_block, valid_link, ret, returned,
            start_tip, start_blocks, attempts, solo>>
bench == <<input, mtree, mtree_was, blk, blk_was, call, pending>>
vars == <<blocks, append_mutex, locals, goal, tampered, bench>>

NoBlock == Block(INITIAL_HASH, 0, Leaf(INITIAL_HASH, None))

\* Blockchain::length
length(bs) == Len(bs)

\* Blockchain::hash_of_last_block
hash_of_last_block(bs) ==
    IF bs = <<>> THEN INITIAL_HASH ELSE calculate_hash(bs[Len(bs)])

\* faulty variant of VerifyLoop: the blocks themselves are not verified
RECURSIVE VerifyLoopLinksOnly(_, _, _)
VerifyLoopLinksOnly(bs, i, previous_hash) ==
    IF i > Len(bs) THEN TRUE
    ELSE IF bs[i].prev_hash # previous_hash THEN FALSE
    ELSE VerifyLoopLinksOnly(bs, i + 1, previous_hash)

\* Blockchain::verify of blockchain.rs: previous_hash is never advanced
\* (the update at the end of the loop body is commented out)
RECURSIVE VerifyLoop(_, _, _)
VerifyLoop(bs, i, previous_hash) ==
    IF i > Len(bs) THEN TRUE
    ELSE LET block == bs[i]
             valid_link_to_prev_block == block.prev_hash = previous_hash
             block_is_valid == BlockVerify(block)
         IN  IF ~valid_link_to_prev_block \/ ~block_is_valid THEN FALSE
             ELSE VerifyLoop(bs, i + 1, previous_hash)

BlockchainVerify(bs) == VerifyLoop(bs, 1, INITIAL_HASH)

\* Blockchain::verify of lib.rs: previous_hash = block.calculate_hash()
RECURSIVE VerifyLoopLib(_, _, _)
VerifyLoopLib(bs, i, previous_hash) ==
    IF i > Len(bs) THEN TRUE
    ELSE IF bs[i].prev_hash # previous_hash \/ ~BlockVerify(bs[i]) THEN FALSE
    ELSE VerifyLoopLib(bs, i + 1, calculate_hash(bs[i]))

BlockchainVerifyLib(bs) == VerifyLoopLib(bs, 1, INITIAL_HASH)

\* a call record: the method, its argument and what it returned
Call(m, a, r) == [method |-> m, arg |-> a, result |-> r]

\* no single tree or block is at hand
NoBench ==
    /\ input = None
    /\ mtree = Leaf(INITIAL_HASH, None)
    /\ mtree_was = Leaf(INITIAL_HASH, None)
    /\ blk = NoBlock
    /\ blk_was = NoBlock
    /\ call = Call("none", None, FALSE)
    /\ pending = <<>>

\* Blockchain::new, and no call under way
NewChain ==
    /\ blocks = <<>>
    /\ append_mutex = NoWriter
    /\ pc = [w \in Writers |-> "idle"]
    /\ caller = [w \in Writers |-> "none"]
    /\ new_block = [w \in Writers |-> NoBlock]
    /\ valid_block = [w \in Writers |-> FALSE]
    /\ valid_link = [w \in Writers |-> FALSE]
    /\ ret = [w \in Writers |-> "none"]
    /\ returned = [w \in Writers |-> None]
    /\ start_tip = [w \in Writers |-> INITIAL_HASH]
    /\ start_blocks = [w \in Writers |-> <<>>]
    /\ attempts = [w \in Writers |-> 0]
    /\ solo = NoWriter
    /\ goal = [w \in Writers |-> None]
    /\ tampered = "no"

Init == NewChain /\ NoBench

\* a leaf whose payload was exchanged after its hash was computed
TamperedTree == Leaf(Sha256(<<ItemBytes(1)>>), Some(2))

\* blocks a caller may hand to append_block: blocks announced before (stored
\* ones, and those append_data returned to a writer), unmined blocks on the
\* current tip, any of these with its payload exchanged, and a block mined
\* elsewhere on the current tip
Announced(bs, rets) ==
    LET trees == {MerkleTreeNew(d) : d \in Payloads}
        fresh == {BlockNew(hash_of_last_block(bs), t) : t \in trees}
        known == {bs[i] : i \in 1..Len(bs)} \cup {r[1] : r \in {x \in rets : x # None}}
        mined == {b \in {calculate_nonce(k) : k \in {f \in fresh : IsLeaf(f.merkle_tree)}} :
                     b.nonce <= MaxNonce}
        intact == fresh \cup known \cup mined
        swapped == {[b EXCEPT !.merkle_tree = TamperedTree] :
                       b \in {k \in intact :
                                 get_root_hash(k.merkle_tree) = get_root_hash(TamperedTree)}}
    IN  intact \cup swapped

\* faulty variant of AppendDataStart: links the block to the genesis sentinel
\* instead of the tip it read
AppendDataStartStale(w, d) ==
    /\ pc[w] = "idle"
    /\ length(blocks) < MaxChain
    /\ new_block' = [new_block EXCEPT ![w] = BlockNew(INITIAL_HASH, MerkleTreeNew(d))]
    /\ pc' = [pc EXCEPT ![w] = "mine"]
    /\ caller' = [caller EXCEPT ![w] = "append_data"]
    /\ start_tip' = [start_tip EXCEPT ![w] = hash_of_last_block(blocks)]
    /\ start_blocks' = [start_blocks EXCEPT ![w] = blocks]
    /\ solo' = IF \A v \in Writers \ {w} : pc[v] = "idle" THEN w ELSE NoWriter
    /\ UNCHANGED <<blocks, append_mutex, valid_block, valid_link, ret, returned,
                   attempts, goal, tampered, bench>>

\* faulty variant of AppendDataStart: takes the append lock before mining
AppendDataStartLocked(w, d) ==
    /\ pc[w] = "idle"
    /\ length(blocks) < MaxChain
    /\ append_mutex = NoWriter
    /\ append_mutex' = w
    /\ new_block' = [new_block EXCEPT ![w] =
                        BlockNew(hash_of_last_block(blocks), MerkleTreeNew(d))]
    /\ pc' = [pc EXCEPT ![w] = "mine"]
    /\ caller' = [caller EXCEPT ![w] = "append_data"]
    /\ start_tip' = [start_tip EXCEPT ![w] = hash_of_last_block(blocks)]
    /\ start_blocks' = [start_blocks EXCEPT ![w] = blocks]
    /\ solo' = IF \A v \in Writers \ {w} : pc[v] = "idle" THEN w ELSE NoWriter
    /\ UNCHANGED <<blocks, valid_block, valid_link, ret, returned, attempts,
                   goal, tampered, bench>>

\* append_data, line 98: read the tip without the lock, build the block
AppendDataStart(w, d) ==
    /\ pc[w] = "idle"
    /\ length(blocks) < MaxChain
    /\ new_block' = [new_block EXCEPT ![w] =
                        BlockNew(hash_of_last_block(blocks), MerkleTreeNew(d))]
    /\ pc' = [pc EXCEPT ![w] = "mine"]
    /\ caller' = [caller EXCEPT ![w] = "append_data"]
    /\ start_tip' = [start_tip EXCEPT ![w] = hash_of_last_block(blocks)]
    /\ start_blocks' = [start_blocks EXCEPT ![w] = blocks]
    /\ solo' = IF \A v \in Writers \ {w} : pc[v] = "idle" THEN w ELSE NoWriter
    /\ UNCHANGED <<blocks, append_mutex, valid_block, valid_link, ret, returned,
                   attempts, goal, tampered, bench>>

\* faulty variant of AppendDataMine: hands the block on without mining it
AppendDataMineSkipped(w) ==
    /\ pc[w] = "mine"
    /\ attempts' = [attempts EXCEPT ![w] = attempts[w] + 1]
    /\ pc' = [pc EXCEPT ![w] = "lock"]
    /\ UNCHANGED <<blocks, append_mutex, caller, new_block, valid_block, valid_link,
                   ret, returned, start_tip, start_blocks, solo, goal, tampered, bench>>

\* append_data, lines 99-100: mine without the lock, then call append_block
AppendDataMine(w) ==
    /\ pc[w] = "mine"
    /\ new_block' = [new_block EXCEPT ![w] = calculate_nonce(new_block[w])]
    /\ new_block'[w].nonce <= MaxNonce
    /\ attempts' = [attempts EXCEPT ![w] = attempts[w] + 1]
    /\ pc' = [pc EXCEPT ![w] = "lock"]
    /\ UNCHANGED <<blocks, append_mutex, caller, valid_block, valid_link, ret,
                   returned, start_tip, start_blocks, solo, goal, tampered, bench>>

\* a caller hands append_block a block it was given
AppendBlockCall(w, b) ==
    /\ pc[w] = "idle"
    /\ goal[w] = None
    /\ length(blocks) < MaxChain
    /\ new_block' = [new_block EXCEPT ![w] = b]
    /\ pc' = [pc EXCEPT ![w] = "lock"]
    /\ caller' = [caller EXCEPT ![w] = "append_block"]
    /\ start_blocks' = [start_blocks EXCEPT ![w] = blocks]
    /\ solo' = NoWriter
    /\ UNCHANGED <<blocks, append_mutex, valid_block, valid_link, ret, returned,
                   start_tip, attempts, goal, tampered, bench>>

\* faulty variant of Lock: the lock does not exclude a second holder
LockNoExclusion(w) ==
    /\ pc[w] = "lock"
    /\ append_mutex' = w
    /\ pc' = [pc EXCEPT ![w] = "check"]
    /\ UNCHANGED <<blocks, caller, new_block, valid_block, valid_link, ret,
                   returned, start_tip, start_blocks, attempts, solo, goal, tampered, bench>>

\* append_block, line 75: let _guard = self.append_mutex.lock().unwrap()
Lock(w) ==
    /\ pc[w] = "lock"
    /\ append_mutex = NoWriter
    /\ append_mutex' = w
    /\ pc' = [pc EXCEPT ![w] = "check"]
    /\ UNCHANGED <<blocks, caller, new_block, valid_block, valid_link, ret,
                   returned, start_tip, start_blocks, attempts, solo, goal, tampered, bench>>

\* faulty variant of Check: the link to the tip is not checked
CheckNoLink(w) ==
    /\ pc[w] = "check"
    /\ valid_block' = [valid_block EXCEPT ![w] = BlockVerify(new_block[w])]
    /\ valid_link' = [valid_link EXCEPT ![w] = TRUE]
    /\ pc' = [pc EXCEPT ![w] = "push"]
    /\ UNCHANGED <<blocks, append_mutex, caller, new_block, ret, returned,
                   start_tip, start_blocks, attempts, solo, goal, tampered, bench>>

\* faulty variant of Check: the block itself is not verified
CheckNoVerify(w) ==
    /\ pc[w] = "check"
    /\ valid_block' = [valid_block EXCEPT ![w] = TRUE]
    /\ valid_link' = [valid_link EXCEPT ![w] =
                         new_block[w].prev_hash = hash_of_last_block(blocks)]
    /\ pc' = [pc EXCEPT ![w] = "push"]
    /\ UNCHANGED <<blocks, append_mutex, caller, new_block, ret, returned,
                   start_tip, start_blocks, attempts, solo, goal, tampered, bench>>

\* append_block, lines 76-77: the two checks, the tip read under the lock
Check(w) ==
    /\ pc[w] = "check"
    /\ valid_block' = [valid_block EXCEPT ![w] = BlockVerify(new_block[w])]
    /\ valid_link' = [valid_link EXCEPT ![w] =
                         new_block[w].prev_hash = hash_of_last_block(blocks)]
    /\ pc' = [pc EXCEPT ![w] = "push"]
    /\ UNCHANGED <<blocks, append_mutex, caller, new_block, ret, returned,
                   start_tip, start_blocks, attempts, solo, goal, tampered, bench>>

\* faulty variant of Push: the block is pushed before the checks are looked at
PushAnyway(w) ==
    /\ pc[w] = "push"
    /\ blocks' = Append(blocks, new_block[w])
    /\ ret' = [ret EXCEPT ![w] =
                 IF valid_block[w] /\ valid_link[w] THEN "true" ELSE "false"]
    /\ pc' = [pc EXCEPT ![w] = "unlock"]
    /\ UNCHANGED <<append_mutex, caller, new_block, valid_block, valid_link,
                   returned, start_tip, start_blocks, attempts, solo, goal, tampered, bench>>

\* faulty variant of Push: an accepted block takes the place of the last
\* stored block when the chain holds one
PushOverLast(w) ==
    /\ pc[w] = "push"
    /\ IF valid_block[w] /\ valid_link[w]
       THEN /\ blocks' = IF blocks = <<>> THEN <<new_block[w]>>
                         ELSE [blocks EXCEPT ![Len(blocks)] = new_block[w]]
            /\ ret' = [ret EXCEPT ![w] = "true"]
       ELSE /\ blocks' = blocks
            /\ ret' = [ret EXCEPT ![w] = "false"]
    /\ pc' = [pc EXCEPT ![w] = "unlock"]
    /\ UNCHANGED <<append_mutex, caller, new_block, valid_block, valid_link,
                   returned, start_tip, start_blocks, attempts, solo, goal, tampered, bench>>

\* append_block, lines 78-85: push and true, or false
Push(w) ==
    /\ pc[w] = "push"
    /\ IF valid_block[w] /\ valid_link[w]
       THEN /\ blocks' = Append(blocks, new_block[w])
            /\ ret' = [ret EXCEPT ![w] = "true"]
       ELSE /\ blocks' = blocks
            /\ ret' = [ret EXCEPT ![w] = "false"]
    /\ pc' = [pc EXCEPT ![w] = "unlock"]
    /\ UNCHANGED <<append_mutex, caller, new_block, valid_block, valid_link,
                   returned, start_tip, start_blocks, attempts, solo, goal, tampered, bench>>

\* faulty variant of Unlock: the lock is released on the accepting path
\* only, a rejected append returns with the lock held
UnlockOnAccept(w) ==
    /\ pc[w] = "unlock"
    /\ append_mutex' = IF ret[w] = "true" THEN NoWriter ELSE append_mutex
    /\ returned' = [returned EXCEPT ![w] =
                       IF caller[w] = "append_data" THEN Some(new_block[w]) ELSE None]
    /\ pc' = [pc EXCEPT ![w] = "done"]
    /\ UNCHANGED <<blocks, caller, new_block, valid_block, valid_link, ret,
                   start_tip, start_blocks, attempts, solo, goal, tampered, bench>>

\* append_block, line 87: _guard goes out of scope; append_data, line 101:
\* the result of append_block is dropped and new_block is returned
Unlock(w) ==
    /\ pc[w] = "unlock"
    /\ append_mutex' = NoWriter
    /\ returned' = [returned EXCEPT ![w] =
                       IF caller[w] = "append_data" THEN Some(new_block[w]) ELSE None]
    /\ pc' = [pc EXCEPT ![w] = "done"]
    /\ UNCHANGED <<blocks, caller, new_block, valid_block, valid_link, ret,
                   start_tip, start_blocks, attempts, solo, goal, tampered, bench>>

\* the locals of a finished call go out of scope
DropLocals(w) ==
    /\ pc[w] = "done"
    /\ pc' = [pc EXCEPT ![w] = "idle"]
    /\ caller' = [caller EXCEPT ![w] = "none"]
    /\ new_block' = [new_block EXCEPT ![w] = NoBlock]
    /\ valid_block' = [valid_block EXCEPT ![w] = FALSE]
    /\ valid_link' = [valid_link EXCEPT ![w] = FALSE]
    /\ ret' = [ret EXCEPT ![w] = "none"]
    /\ returned' = [returned EXCEPT ![w] = None]
    /\ start_tip' = [start_tip EXCEPT ![w] = INITIAL_HASH]
    /\ start_blocks' = [start_blocks EXCEPT ![w] = <<>>]
    /\ attempts' = [attempts EXCEPT ![w] = 0]
    /\ solo' = IF solo = w THEN NoWriter ELSE solo
    /\ UNCHANGED <<blocks, append_mutex>>

\* the caller goes on after the call
Finish(w) ==
    /\ goal[w] = None
    /\ DropLocals(w)
    /\ UNCHANGED <<goal, tampered, bench>>

\* a caller without a payload to retry calls append_data
AppendData(w, d) ==
    /\ goal[w] = None
    /\ AppendDataStart(w, d)

\* a caller hands append_block one of the announced blocks
AppendBlock(w) ==
    \E b \in Announced(blocks, {returned[v] : v \in Writers}) : AppendBlockCall(w, b)

Next ==
    \/ \E w \in Writers, d \in Payloads : AppendData(w, d)
    \/ \E w \in Writers : AppendDataMine(w)
    \/ \E w \in Writers : AppendBlock(w)
    \/ \E w \in Writers : Lock(w)
    \/ \E w \in Writers : Check(w)
    \/ \E w \in Writers : Push(w)
    \/ \E w \in Writers : Unlock(w)
    \/ \E w \in Writers : Finish(w)

Spec == Init /\ [][Next]_vars

(***************************************************************************)
(* The retry loop the documentation of append_data asks of its callers: the *)
(* code makes one attempt per call, so a caller that wants its payload in   *)
(* the chain calls again until its block was stored.                        *)
(***************************************************************************)
\* writers other than w that still have a payload to get appended
Waiting(w) == {v \in Writers \ {w} : goal[v] # None}

\* a writer takes up a payload while the chain has room for it
Submit(w, d) ==
    /\ pc[w] = "idle"
    /\ goal[w] = None
    /\ length(blocks) + Cardinality(Waiting(w)) < MaxChain
    /\ goal' = [goal EXCEPT ![w] = Some([data |-> d, retried |-> FALSE])]
    /\ UNCHANGED <<blocks, append_mutex, locals, tampered, bench>>

\* the writer calls append_data with its payload, on the tip as it is now
Resubmit(w) ==
    /\ goal[w] # None
    /\ AppendDataStart(w, goal[w][1].data)

\* the writer learns whether its block was stored, and gives up the payload
\* once it was
Observe(w) ==
    /\ goal[w] # None
    /\ DropLocals(w)
    /\ goal' = [goal EXCEPT ![w] = IF ret[w] = "true" THEN None
                                   ELSE Some([goal[w][1] EXCEPT !.retried = TRUE])]
    /\ UNCHANGED <<tampered, bench>>

\* the steps of writer w once it has a payload
Progress(w) ==
    \/ Resubmit(w)
    \/ AppendDataMine(w)
    \/ Lock(w)
    \/ Check(w)
    \/ Push(w)
    \/ Unlock(w)
    \/ Observe(w)

RetryNext ==
    \/ \E w \in Writers, d \in Payloads : Submit(w, d)
    \/ \E w \in Writers : Resubmit(w)
    \/ \E w \in Writers : AppendDataMine(w)
    \/ \E w \in Writers : Lock(w)
    \/ \E w \in Writers : Check(w)
    \/ \E w \in Writers : Push(w)
    \/ \E w \in Writers : Unlock(w)
    \/ \E w \in Writers : Observe(w)

\* every thread that can take a step is scheduled eventually
RetrySpec == Init /\ [][RetryNext]_vars /\ \A w \in Writers : WF_vars(Progress(w))

(***************************************************************************)
(* Tampering with a stored block, behind the methods of Blockchain.         *)
(***************************************************************************)
\* payload items a tamperer may write
Items == {1, 2, 3}

\* the paths (0 = left, 1 = right) to the leaves of t that hold their payload
RECURSIVE PresentLeaves(_)
PresentLeaves(t) ==
    IF IsLeaf(t) THEN (IF t.data = None THEN {} ELSE {<<>>})
    ELSE {<<0>> \o q : q \in PresentLeaves(t.left)}
         \cup {<<1>> \o q : q \in PresentLeaves(t.right)}

\* t with the payload of the leaf at path q replaced by x, its hashes untouched
RECURSIVE WithPayload(_, _, _)
WithPayload(t, q, x) ==
    IF IsLeaf(t) THEN [t EXCEPT !.data = Some(x)]
    ELSE IF Head(q) = 0 THEN [t EXCEPT !.left = WithPayload(t.left, Tail(q), x)]
    ELSE [t EXCEPT !.right = WithPayload(t.right, Tail(q), x)]

\* the payload of the leaf at path q
RECURSIVE PayloadAt(_, _)
PayloadAt(t, q) ==
    IF IsLeaf(t) THEN t.data[1]
    ELSE IF Head(q) = 0 THEN PayloadAt(t.left, Tail(q))
    ELSE PayloadAt(t.right, Tail(q))

\* no call is under way (the tamperer holds the chain by itself)
Quiet == \A w \in Writers : pc[w] = "idle"

\* the nonce of a block that has a successor is changed to another value
TamperNonceInterior(i, n) ==
    /\ Quiet
    /\ tampered = "no"
    /\ i \in 1..(Len(blocks) - 1)
    /\ n # blocks[i].nonce
    /\ blocks' = [blocks EXCEPT ![i].nonce = n]
    /\ tampered' = "nonce"
    /\ UNCHANGED <<append_mutex, locals, goal, bench>>

\* the nonce of any block is changed to a value that misses the target
TamperNonceUnmined(i, n) ==
    /\ Quiet
    /\ tampered = "no"
    /\ i \in 1..Len(blocks)
    /\ ~verify_nonce([blocks[i] EXCEPT !.nonce = n])
    /\ blocks' = [blocks EXCEPT ![i].nonce = n]
    /\ tampered' = "unmined"
    /\ UNCHANGED <<append_mutex, locals, goal, bench>>

\* the payload of a present leaf of any block is changed
TamperPayload(i, x) ==
    /\ Quiet
    /\ tampered = "no"
    /\ i \in 1..Len(blocks)
    /\ \E q \in PresentLeaves(blocks[i].merkle_tree) :
          /\ x # PayloadAt(blocks[i].merkle_tree, q)
          /\ blocks' = [blocks EXCEPT ![i].merkle_tree = WithPayload(@, q, x)]
    /\ tampered' = "payload"
    /\ UNCHANGED <<append_mutex, locals, goal, bench>>

\* nonces a tamperer writes: small ones, and the next one that meets the target
TamperNonces(b) ==
    {0, 1, b.nonce + 1} \cup {n \in {SearchNonce(b, b.nonce + 1)} : n <= MaxNonce}

\* the calls go on as long as nothing was tampered with; Blockchain::verify
\* is then asked about the chain as the tamperer left it
Untampered == tampered = "no" /\ Next

\* the indices of the blocks that can be tampered with now
Tamperable == IF Quiet /\ tampered = "no" THEN 1..Len(blocks) ELSE {}

TamperNext ==
    \/ Untampered
    \/ \E i \in Tamperable : \E n \in TamperNonces(blocks[i]) : TamperNonceInterior(i, n)
    \/ \E i \in Tamperable : \E n \in TamperNonces(blocks[i]) : TamperNonceUnmined(i, n)
    \/ \E i \in Tamperable, x \in Items : TamperPayload(i, x)

TamperSpec == Init /\ [][TamperNext]_vars

(***************************************************************************)
(* One Merkle tree and the methods its owner calls on it, one at a time     *)
(* (they take &mut self).                                                   *)
(***************************************************************************)
\* the items trees are built from (the methods are also called with the
\* third of Items, which no tree holds)
TreeItems == {1, 2}

\* the non-empty item sequences of length at most n
RECURSIVE ItemSeqs(_)
ItemSeqs(n) ==
    IF n = 0 THEN {}
    ELSE IF n = 1 THEN {<<x>> : x \in TreeItems}
    ELSE LET shorter == ItemSeqs(n - 1)
         IN  shorter \cup {Append(q, x) : q \in {r \in shorter : Len(r) = n - 1},
                                          x \in TreeItems}

\* the subtrees of t, t included
RECURSIVE Subtrees(_)
Subtrees(t) ==
    IF IsLeaf(t) THEN {t} ELSE {t} \cup Subtrees(t.left) \cup Subtrees(t.right)

\* a tree put together by hand (the fields of the enum are public): the hash
\* of t over two leaves that have nothing to do with it
Forged(t) ==
    Node(get_root_hash(t), Leaf(Sha256(<<ItemBytes(3)>>), Some(3)),
                           Leaf(Sha256(<<ItemBytes(3)>>), None))

\* trees somebody may hand in for the tree t: its subtrees with their
\* payload, the same reduced to their root hash, t with one payload
\* forgotten, a leaf whose payload does not match its hash, and a forged
\* tree with the hash of t or of its left subtree
Candidates(t) ==
    LET whole == Subtrees(t)
    IN  whole \cup {shrink_to_minimum(c) : c \in whole}
              \cup {forget_leaf(t, x).self : x \in Items}
              \cup {TamperedTree}
              \cup {Forged(t)}
              \cup (IF IsLeaf(t) THEN {} ELSE {Forged(t.left)})

\* MerkleTree::new(&input)
TreeInit ==
    /\ NewChain
    /\ input \in ItemSeqs(MaxLen)
    /\ mtree = MerkleTreeNew(input)
    /\ mtree_was = mtree
    /\ blk = NoBlock
    /\ blk_was = NoBlock
    /\ call = Call("new", input, TRUE)
    /\ pending = <<>>

\* what every call on the tree leaves alone
TreeFrame == UNCHANGED <<blocks, append_mutex, locals, goal, tampered, input, blk, blk_was, pending>>

TreeForgetLeaf(element) ==
    /\ call.method # "none"
    /\ LET o == forget_leaf(mtree, element)
       IN  /\ mtree' = o.self
           /\ call' = Call("forget_leaf", element, o.ret)
    /\ mtree_was' = mtree
    /\ TreeFrame

TreeRestoreElement(element) ==
    /\ call.method # "none"
    /\ LET o == restore_element(mtree, element)
       IN  /\ mtree' = o.self
           /\ call' = Call("restore_element", element, o.ret)
    /\ mtree_was' = mtree
    /\ TreeFrame

TreeInsertSubtree(subtree) ==
    /\ call.method # "none"
    /\ LET o == insert_subtree(mtree, subtree)
       IN  /\ mtree' = o.self
           /\ call' = Call("insert_subtree", subtree, o.ret)
    /\ mtree_was' = mtree
    /\ TreeFrame

TreeRestoreSubtree(subtree) ==
    /\ call.method # "none"
    /\ LET o == restore_subtree(mtree, subtree)
       IN  /\ mtree' = o.self
           /\ call' = Call("restore_subtree", subtree, o.ret)
    /\ mtree_was' = mtree
    /\ TreeFrame

TreeShrinkToMinimum ==
    /\ call.method # "none"
    /\ mtree' = shrink_to_minimum(mtree)
    /\ call' = Call("shrink_to_minimum", None, TRUE)
    /\ mtree_was' = mtree
    /\ TreeFrame

TreeForgetAllLeaves ==
    /\ call.method # "none"
    /\ mtree' = forget_all_leaves(mtree)
    /\ call' = Call("forget_all_leaves", None, TRUE)
    /\ mtree_was' = mtree
    /\ TreeFrame

TreeForgetSubtree(hash) ==
    /\ call.method # "none"
    /\ LET o == forget_subtree(mtree, hash)
       IN  /\ mtree' = o.self
           /\ call' = Call("forget_subtree", hash, o.ret)
    /\ mtree_was' = mtree
    /\ TreeFrame

\* hashes somebody may name for the tree t: those of its nodes, and one of
\* no node
Hashes(t) == {get_root_hash(c) : c \in Subtrees(t)} \cup {INITIAL_HASH}

\* a round trip through the text form; the tree itself is not touched
TreeExportImport ==
    /\ call.method # "none"
    /\ \E xml \in {export_xml(mtree)} :
          call' = Call("import_xml", xml, import_xml(xml))
    /\ mtree' = mtree
    /\ mtree_was' = mtree
    /\ TreeFrame

TreeNext ==
    \/ TreeExportImport
    \/ TreeForgetAllLeaves
    \/ \E h \in Hashes(MerkleTreeNew(input)) : TreeForgetSubtree(h)
    \/ \E x \in Items : TreeForgetLeaf(x)
    \/ \E x \in Items : TreeRestoreElement(x)
    \/ \E c \in Candidates(MerkleTreeNew(input)) : TreeInsertSubtree(c)
    \/ \E c \in Candidates(MerkleTreeNew(input)) : TreeRestoreSubtree(c)
    \/ TreeShrinkToMinimum

TreeSpec == TreeInit /\ [][TreeNext]_vars

(***************************************************************************)
(* A caller that forgets all leaves of a fresh tree and then restores the  *)
(* items it was built from one by one, in an order of its choosing.        *)
(***************************************************************************)
RestoreAllForget ==
    /\ call.method = "new"
    /\ mtree' = forget_all_leaves(mtree)
    /\ call' = Call("forget_all_leaves", None, TRUE)
    /\ mtree_was' = mtree
    /\ pending' = input
    /\ UNCHANGED <<blocks, append_mutex, locals, goal, tampered, input, blk, blk_was>>

\* the caller hands in the i-th of the items it still holds
RestoreAllElement(i) ==
    /\ call.method \in {"forget_all_leaves", "restore_element"}
    /\ i \in 1..Len(pending)
    /\ LET o == restore_element(mtree, pending[i])
       IN  /\ mtree' = o.self
           /\ call' = Call("restore_element", pending[i], o.ret)
    /\ mtree_was' = mtree
    /\ pending' = SubSeq(pending, 1, i - 1) \o SubSeq(pending, i + 1, Len(pending))
    /\ UNCHANGED <<blocks, append_mutex, locals, goal, tampered, input, blk, blk_was>>

RestoreAllNext ==
    \/ RestoreAllForget
    \/ \E i \in 1..MaxLen : RestoreAllElement(i)

RestoreAllSpec == TreeInit /\ [][RestoreAllNext]_vars

(***************************************************************************)
(* One block and the methods its owner calls on it.                         *)
(***************************************************************************)
\* previous hashes blocks are built on: the sentinel and the hash of a block
PrevHashes == {INITIAL_HASH, calculate_hash(NoBlock)}

\* trees blocks are built with (Block::new does not verify the tree)
BlockTrees == {MerkleTreeNew(d) : d \in ItemSeqs(MaxLen)} \cup {TamperedTree}

\* Block::new(input.previous_hash, input.data)
BlockInit ==
    /\ NewChain
    /\ input \in [previous_hash : PrevHashes, data : BlockTrees]
    /\ mtree = Leaf(INITIAL_HASH, None)
    /\ mtree_was = mtree
    /\ blk = BlockNew(input.previous_hash, input.data)
    /\ blk_was = blk
    /\ call = Call("new", input, TRUE)
    /\ pending = <<>>

\* what every call on the block leaves alone
BlockFrame == UNCHANGED <<blocks, append_mutex, locals, goal, tampered, input, mtree, mtree_was, pending>>

BlkCalculateNonce ==
    /\ call.method # "none"
    /\ blk' = calculate_nonce(blk)
    /\ blk'.nonce <= MaxNonce
    /\ call' = Call("calculate_nonce", None, blk'.nonce)
    /\ blk_was' = blk
    /\ BlockFrame

BlkClearMerkleTree ==
    /\ call.method # "none"
    /\ blk' = clear_merkle_tree(blk)
    /\ call' = Call("clear_merkle_tree", None, TRUE)
    /\ blk_was' = blk
    /\ BlockFrame

BlkRestoreMerkleTree(given) ==
    /\ call.method # "none"
    /\ LET o == restore_merkle_tree(blk, given)
       IN  /\ blk' = o.self
           /\ call' = Call("restore_merkle_tree", given, o.ret)
    /\ blk_was' = blk
    /\ BlockFrame

BlockNext ==
    \/ BlkCalculateNonce
    \/ BlkClearMerkleTree
    \/ \E c \in Candidates(input.data) : BlkRestoreMerkleTree(c)

BlockSpec == BlockInit /\ [][BlockNext]_vars

(***************************************************************************)
(* The nonce search on its own: calculate_nonce on a block whose nonce     *)
(* field holds any value, not only the 0 of Block::new.                    *)
(***************************************************************************)
StartNonces == 0..MaxStart

SearchInit ==
    /\ NewChain
    /\ input \in [previous_hash : PrevHashes, data : BlockTrees, nonce : StartNonces]
    /\ mtree = Leaf(INITIAL_HASH, None)
    /\ mtree_was = mtree
    /\ blk = Block(input.previous_hash, input.nonce, input.data)
    /\ blk_was = blk
    /\ call = Call("new", input, TRUE)
    /\ pending = <<>>

SearchNext == BlkCalculateNonce

SearchSpec == SearchInit /\ [][SearchNext]_vars

(***************************************************************************)
(* The loop of calculate_nonce at the top of the nonce width, one          *)
(* iteration at a time.  `self.nonce += 1` on u128::MAX panics in a build  *)
(* with overflow checks (the default of the dev profile) and wraps to 0 in *)
(* a build without them (the default of the release profile).              *)
(***************************************************************************)
\* the search is started at one of this many nonces below the top
NearTop == 3

TopNonces == (u128_MAX - NearTop + 1)..u128_MAX

OverflowInit ==
    /\ NewChain
    /\ input \in [previous_hash : PrevHashes, data : BlockTrees, nonce : TopNonces,
                  overflow_checks : BOOLEAN]
    /\ mtree = Leaf(INITIAL_HASH, None)
    /\ mtree_was = mtree
    /\ blk = Block(input.previous_hash, input.nonce, input.data)
    /\ blk_was = blk
    /\ call = Call("calculate_nonce", input.overflow_checks, "running")
    /\ pending = <<>>

\* what an iteration of the loop leaves alone
LoopFrame ==
    UNCHANGED <<blocks, append_mutex, locals, goal, tampered, input, mtree, mtree_was,
                blk_was, pending>>

\* while !self.verify_nonce() is left, self.nonce is returned
NonceLoopReturn ==
    /\ call.method = "calculate_nonce"
    /\ call.result = "running"
    /\ verify_nonce(blk)
    /\ call' = [call EXCEPT !.result = "returned"]
    /\ blk' = blk
    /\ LoopFrame

\* self.nonce += 1 below the top of the width
NonceLoopIncrement ==
    /\ call.method = "calculate_nonce"
    /\ call.result = "running"
    /\ blk.nonce # u128_MAX
    /\ blk.nonce < MaxNonce
    /\ ~verify_nonce(blk)
    /\ blk' = [blk EXCEPT !.nonce = blk.nonce + 1]
    /\ call' = call
    /\ LoopFrame

\* self.nonce += 1 at u128::MAX: a panic ("attempt to add with overflow")
\* with overflow checks, the nonce 0 without
NonceLoopOverflow ==
    /\ call.method = "calculate_nonce"
    /\ call.result = "running"
    /\ blk.nonce = u128_MAX
    /\ ~verify_nonce(blk)
    /\ IF call.arg
       THEN /\ call' = [call EXCEPT !.result = "panicked"]
            /\ blk' = blk
       ELSE /\ call' = call
            /\ blk' = [blk EXCEPT !.nonce = 0]
    /\ LoopFrame

OverflowNext ==
    \/ NonceLoopReturn
    \/ NonceLoopIncrement
    \/ NonceLoopOverflow

OverflowSpec == OverflowInit /\ [][OverflowNext]_vars

(***************************************************************************)
(* The leading-zero check of verify_nonce on its own: hash values and       *)
(* difficulties are drawn, the check is applied.                            *)
(***************************************************************************)
\* ZEROS is a u8
Difficulties == 0..(2 ^ 8 - 1)

\* hash values: some zero bytes, one byte, and the rest all zeros or all ones
ZeroPrefixes == {0, 1, 2, 15, 30, 31, 32}
MixedBytes == {0, 1, 2, 4, 8, 16, 32, 64, 128, 85, 255}
HashValues ==
    {[i \in 1..HashLen |-> IF i <= k THEN 0 ELSE IF i = k + 1 THEN m ELSE f] :
        k \in ZeroPrefixes, m \in MixedBytes, f \in {0, 255}}

ZerosInit ==
    /\ NewChain
    /\ input \in [hash : HashValues, z : Difficulties]
    /\ mtree = Leaf(INITIAL_HASH, None)
    /\ mtree_was = mtree
    /\ blk = NoBlock
    /\ blk_was = NoBlock
    /\ call = Call("new", input, TRUE)
    /\ pending = <<>>

\* verify_nonce on a block whose calculate_hash() is input.hash, built with
\* ZEROS = input.z
CheckLeadingZeros ==
    /\ call.method = "new"
    /\ call' = Call("verify_nonce", input, LeadingZeros(input.hash, input.z))
    /\ UNCHANGED <<blocks, append_mutex, locals, goal, tampered, input, mtree, mtree_was, blk, blk_was, pending>>

ZerosNext == CheckLeadingZeros

ZerosSpec == ZerosInit /\ [][ZerosNext]_vars

(***************************************************************************)
(* Properties.                                                             *)
(***************************************************************************)
\* the walk Blockchain::verify is documented to make: the expected previous
\* hash starts at INITIAL_HASH and advances to each block's recomputed hash
ExpectedWalk(bs) ==
    \A i \in 1..Len(bs) :
        /\ bs[i].prev_hash = (IF i = 1 THEN INITIAL_HASH ELSE calculate_hash(bs[i - 1]))
        /\ BlockVerify(bs[i])

\* append_block's acceptance condition for writer w's block, on the chain as it is
Acceptable(w) ==
    /\ BlockVerify(new_block[w])
    /\ new_block[w].prev_hash = hash_of_last_block(blocks)

\* writer w is in the step of append_block that pushes or rejects
Deciding(w) == pc[w] = "push" /\ pc'[w] = "unlock"

\* writer w has come back from append_block inside an append_data call
Returned(w) == pc[w] \in {"unlock", "done"} /\ caller[w] = "append_data"

\* C1: Blockchain::verify returns true exactly when the walk with the
\* advancing expected hash succeeds; in particular it returns true for a
\* chain of two or more blocks built by successful append_block calls.
C1_VerifyIffWalk == BlockchainVerify(blocks) = ExpectedWalk(blocks)

\* C2: after any sequence of append_block and append_data calls the stored
\* chain starts at the sentinel, every block links to the recomputed hash of
\* its predecessor, and every block meets the target and has a valid tree.
C2_ChainInvariant == ExpectedWalk(blocks)

\* C2: a chain of two blocks, with a call just rejected
C2_Witness ==
    /\ Len(blocks) >= 2
    /\ \E w \in Writers : pc[w] = "unlock" /\ ret[w] = "false" /\ ~valid_link[w]

\* C3: append_block returns true and pushes the block as the new last block
\* iff block.verify() holds and block.prev_hash is the current tip hash; on
\* success the length grows by one and the tip becomes the block's hash; the
\* chain changes in no other step.
C3_AppendBlockContract ==
    [][/\ \A w \in Writers :
             Deciding(w) =>
                 /\ (ret'[w] = "true") <=> Acceptable(w)
                 /\ (blocks' = Append(blocks, new_block[w])) <=> Acceptable(w)
                 /\ Acceptable(w) =>
                        /\ length(blocks') = length(blocks) + 1
                        /\ hash_of_last_block(blocks') = calculate_hash(new_block[w])
       /\ blocks' # blocks => \E w \in Writers : Deciding(w) /\ Acceptable(w)]_vars

\* C3: a direct append_block call has just pushed its block on a non-empty chain
C3_Witness ==
    \E w \in Writers :
        /\ pc[w] = "unlock" /\ caller[w] = "append_block" /\ ret[w] = "true"
        /\ Len(blocks) >= 2
        /\ blocks[Len(blocks)] = new_block[w]

\* C4: when append_block rejects a block (target missed, invalid tree, or
\* prev_hash not the current tip) it returns false, the chain keeps its
\* length, blocks and tip, and the call returns to its caller.
C4_RejectionLeavesChain ==
    [][\A w \in Writers :
          (Deciding(w) /\ ~Acceptable(w)) =>
              /\ ret'[w] = "false"
              /\ blocks' = blocks
              /\ length(blocks') = length(blocks)
              /\ hash_of_last_block(blocks') = hash_of_last_block(blocks)
              /\ append_mutex' = append_mutex]_vars

\* C4: one call was rejected for a stale prev_hash, another for a tree that
\* does not verify although the block meets the target and links to the tip
C4_Witness ==
    \E w \in Writers, v \in Writers :
        /\ pc[w] = "done" /\ ret[w] = "false" /\ valid_block[w] /\ ~valid_link[w]
        /\ pc[v] = "unlock" /\ ret[v] = "false" /\ valid_link[v]
        /\ verify_nonce(new_block[v]) /\ ~verify_merkle_tree(new_block[v])
        /\ Len(blocks) >= 1

\* C5: when two concurrent writers each mined a block against the same tip
\* and both called append_block, exactly one call succeeded; two blocks
\* with the same prev_hash are never both stored.
C5_OneWinner ==
    /\ \A i \in 1..Len(blocks), j \in 1..Len(blocks) :
          i # j => blocks[i].prev_hash # blocks[j].prev_hash
    /\ \A w \in Writers, v \in Writers :
          (w # v /\ Returned(w) /\ Returned(v) /\ start_tip[w] = start_tip[v]) =>
              /\ verify_nonce(new_block[w]) /\ verify_nonce(new_block[v])
              /\ (ret[w] = "true") # (ret[v] = "true")

\* C5: both writers mined on the same non-genesis tip and came back
C5_Witness ==
    /\ \A w \in Writers : pc[w] = "done" /\ caller[w] = "append_data"
    /\ start_tip[1] = start_tip[2]
    /\ start_tip[1] # INITIAL_HASH
    /\ ret[1] = "false" /\ ret[2] = "true"

\* C6: a writer whose append_data lost the race and that repeats append_data
\* on the recomputed tip eventually gets its payload appended.
C6_LoserEventuallyAppends ==
    \A w \in Writers :
        (goal[w] # None /\ pc[w] = "done" /\ ret[w] = "false")
            ~> (pc[w] = "done" /\ ret[w] = "true")

\* C6: a writer that was rejected before has its block stored
C6_Witness ==
    \E w \in Writers :
        /\ goal[w] # None /\ goal[w][1].retried
        /\ pc[w] = "done" /\ ret[w] = "true"
        /\ blocks[Len(blocks)] = returned[w][1]
        /\ returned[w][1].merkle_tree = MerkleTreeNew(goal[w][1].data)

\* C7: the append lock is held only during append_block's check-and-push,
\* never while the tip is read or the nonce is searched, and a writer that
\* is mining does not keep another writer from entering append_block.
C7_LockScope ==
    /\ \A w \in Writers : (append_mutex = w) <=> (pc[w] \in {"check", "push", "unlock"})
    /\ \A w \in Writers, v \in Writers :
          (pc[w] = "mine" /\ pc[v] = "lock") => ENABLED Lock(v)

\* C7: one writer is inside the critical section while the other is mining
C7_Witness ==
    \E w \in Writers, v \in Writers :
        pc[w] = "mine" /\ pc[v] = "push" /\ append_mutex = v /\ valid_block[v] /\ valid_link[v]

C9_SoloAppendVerifies ==
    \A w \in Writers :
        (solo = w /\ pc[w] = "done" /\ caller[w] = "append_data") =>
            /\ length(blocks) = length(start_blocks[w]) + 1
            /\ blocks[Len(blocks)] = returned[w][1]
            /\ BlockchainVerify(blocks)

\* C10: Blockchain::verify returns false after the nonce of a block with a
\* successor was changed, after any block's nonce was changed to a value
\* missing the target, and after the payload of a present leaf was changed.
C10_TamperDetected ==
    tampered # "no" => (~BlockchainVerify(blocks) /\ ~BlockchainVerifyLib(blocks))

\* C10: the nonce of the first of two blocks was changed to another nonce
\* that meets the target, so only the link to it is broken
C10_Witness ==
    /\ tampered = "nonce"
    /\ Len(blocks) = 2
    /\ BlockVerify(blocks[1]) /\ BlockVerify(blocks[2])
    /\ blocks[2].prev_hash # calculate_hash(blocks[1])

\* how often item x occurs in the sequence q
Occurrences(q, x) == Cardinality({i \in 1..Len(q) : q[i] = x})

\* the last call on the tree was restore_subtree with a candidate whose root
\* hash some node of the tree carried
RestoredKnownSubtree ==
    /\ call.method = "restore_subtree"
    /\ contains_hash(mtree_was, get_root_hash(call.arg))

\* C11: MerkleTree::new(S).get_currently_stored_data() equals S, the tree has
\* |S| leaves, and the left subtree holds the first floor(n/2) items, the
\* right subtree all the remaining ones, for odd and even n.
C11_NewKeepsAllItems ==
    call.method = "new" =>
        /\ get_currently_stored_data(mtree) = input
        /\ LeafCount(mtree) = Len(input)
        /\ Len(input) > 1 =>
              /\ get_currently_stored_data(mtree.left)
                    = SubSeq(input, 1, Len(input) \div 2)
              /\ get_currently_stored_data(mtree.right)
                    = SubSeq(input, (Len(input) \div 2) + 1, Len(input))

\* C12: MerkleTree::new(S).verify() is true: every leaf hash is the digest of
\* its payload and every internal hash the digest of its children's hashes.
C12_NewVerifies ==
    call.method = "new" =>
        /\ MerkleVerify(mtree)
        /\ \A s \in Subtrees(mtree) :
              IF IsLeaf(s)
              THEN s.data # None /\ s.hash = Sha256(<<ItemBytes(s.data[1])>>)
              ELSE s.hash = Sha256(<<s.left.hash, s.right.hash>>)

\* C12: a freshly built tree with two levels of nodes
C12_Witness ==
    /\ call.method = "new"
    /\ Len(input) = 4
    /\ ~IsLeaf(mtree) /\ ~IsLeaf(mtree.left) /\ ~IsLeaf(mtree.right)

\* C13: restore_subtree returns false only if the candidate's root hash is at
\* no node of self; whenever self has a node with that hash it returns true
\* and the candidate's payloads are in self afterwards.
C13_RestoreSubtreeFinds ==
    call.method = "restore_subtree" =>
        /\ call.result <=> contains_hash(mtree_was, get_root_hash(call.arg))
        /\ call.result =>
              \A x \in Items :
                  Occurrences(get_currently_stored_data(mtree), x)
                      >= Occurrences(get_currently_stored_data(call.arg), x)

\* C14: restore_subtree with a candidate whose root hash is in the tree never
\* decreases the number of stored items: every payload present before the
\* call is present after it.
C14_RestoreSubtreeKeepsData ==
    RestoredKnownSubtree =>
        /\ Len(get_currently_stored_data(mtree)) >= Len(get_currently_stored_data(mtree_was))
        /\ \A x \in Items :
              Occurrences(get_currently_stored_data(mtree), x)
                  >= Occurrences(get_currently_stored_data(mtree_was), x)
        /\ \A q \in PresentLeaves(mtree_was) :
              q \in PresentLeaves(mtree) /\ PayloadAt(mtree, q) = PayloadAt(mtree_was, q)

\* C14: the tree held payloads and the candidate, reduced to its root hash,
\* named the whole tree
C14_Witness ==
    /\ RestoredKnownSubtree
    /\ call.arg = shrink_to_minimum(mtree_was)
    /\ Len(get_currently_stored_data(mtree_was)) >= 3

\* C15: shrink_to_minimum on a tree that verifies leaves the root hash
\* unchanged and verify() true, empties get_currently_stored_data(), and
\* leaves a single absent leaf with the former root hash.
C15_ShrinkKeepsRoot ==
    (call.method = "shrink_to_minimum" /\ MerkleVerify(mtree_was)) =>
        /\ get_root_hash(mtree) = get_root_hash(mtree_was)
        /\ MerkleVerify(mtree)
        /\ get_currently_stored_data(mtree) = <<>>
        /\ mtree = Leaf(get_root_hash(mtree_was), None)

\* C15: a tree of several present leaves was shrunk
C15_Witness ==
    /\ call.method = "shrink_to_minimum"
    /\ MerkleVerify(mtree_was)
    /\ ~IsLeaf(mtree_was)
    /\ Len(get_currently_stored_data(mtree_was)) >= 2

\* C16: when forget_leaf(x) returned true, a following restore_element(x)
\* returns true and get_currently_stored_data() is the sequence it was
\* before the forget, also when the tree holds x more than once (stated for
\* the trees that verify).
C16_ForgetRestoreRoundTrip ==
    [][(/\ call.method = "forget_leaf" /\ call.result
        /\ MerkleVerify(mtree_was)
        /\ call'.method = "restore_element" /\ call'.arg = call.arg) =>
           /\ call'.result
           /\ get_currently_stored_data(mtree')
                 = get_currently_stored_data(mtree_was)]_vars

\* the number of leading zero bits of a byte
ByteLeadingZeroBits(byte) ==
    IF byte = 0 THEN 8 ELSE CHOOSE n \in 0..7 : byte \div (2 ^ (7 - n)) = 1

\* reference count: the number of leading zero bits of a hash value
LeadingZeroBits(bytes) ==
    LET nonzero == {i \in 1..HashLen : bytes[i] # 0}
    IN  IF nonzero = {} THEN 8 * HashLen
        ELSE LET first == CHOOSE i \in nonzero : \A j \in nonzero : i <= j
             IN  8 * (first - 1) + ByteLeadingZeroBits(bytes[first])

\* C17: whenever calculate_nonce() returns, verify_nonce() holds on the block
\* with the returned nonce, i.e. its hash has at least ZEROS leading zero
\* bits, and a block whose tree verifies passes verify().
C17_MinedBlockVerifies ==
    call.method = "calculate_nonce" =>
        /\ blk.nonce = call.result
        /\ verify_nonce(blk)
        /\ LeadingZeroBits(HashBytes(calculate_hash(blk))) >= ZEROS
        /\ MerkleVerify(blk.merkle_tree) => BlockVerify(blk)

\* C17: a block with a valid tree of several items failed verify() and passes
\* it after mining
C17_Witness ==
    /\ call.method = "calculate_nonce"
    /\ ~BlockVerify(blk_was)
    /\ ~IsLeaf(blk.merkle_tree)
    /\ BlockVerify(blk)

\* C18: verify_nonce() is true iff the hash has at least Z leading zero bits
\* by a reference count, which is: the first Z div 8 bytes are zero and the
\* top Z mod 8 bits of the next byte are zero, the latter not looked at when
\* Z mod 8 = 0; for every Z in 0..255.
C18_VerifyNonceCountsBits ==
    call.method = "verify_nonce" =>
        LET hash == call.arg.hash
            z == call.arg.z
        IN  /\ call.result <=> LeadingZeroBits(hash) >= z
            /\ call.result <=>
                  /\ \A i \in 1..(z \div 8) : hash[i] = 0
                  /\ z % 8 = 0 \/ hash[z \div 8 + 1] < 2 ^ (8 - (z % 8))

\* C18: a hash with exactly Z leading zero bits, Z not a multiple of 8, passed
C18_Witness ==
    /\ call.method = "verify_nonce"
    /\ call.result
    /\ call.arg.z % 8 = 3
    /\ call.arg.z > 8
    /\ LeadingZeroBits(call.arg.hash) = call.arg.z

\* a mined block built on b
Successor(b) ==
    calculate_nonce(BlockNew(calculate_hash(b), MerkleTreeNew(<<1>>)))

\* C19: clear_merkle_tree and restore_merkle_tree, accepted or rejected, leave
\* prev_hash, nonce and the root hash alone, and with them calculate_hash()
\* and verify_nonce(); a chain that holds the block (which then verifies, as
\* every appended block does) is as valid after the call as before.  Holding
\* for every call, it holds for every sequence of calls.
C19_PruneRestoreKeepHash ==
    call.method \in {"clear_merkle_tree", "restore_merkle_tree"} =>
        /\ blk.prev_hash = blk_was.prev_hash
        /\ blk.nonce = blk_was.nonce
        /\ get_root_hash(blk.merkle_tree) = get_root_hash(blk_was.merkle_tree)
        /\ calculate_hash(blk) = calculate_hash(blk_was)
        /\ calculate_hash(blk) = calculate_hash(calculate_nonce(BlockNew(input.previous_hash, input.data)))
              \/ calculate_hash(blk) = calculate_hash(BlockNew(input.previous_hash, input.data))
        /\ verify_nonce(blk) = verify_nonce(blk_was)
        /\ BlockVerify(blk_was) =>
              \E next \in {Successor(blk_was)} :
                  \A n \in {1, 2} :
                      \E before \in {IF n = 1 THEN <<blk_was>> ELSE <<blk_was, next>>} :
                      \E after \in {IF n = 1 THEN <<blk>> ELSE <<blk, next>>} :
                          /\ BlockchainVerify(after) = BlockchainVerify(before)
                          /\ BlockchainVerifyLib(after) = BlockchainVerifyLib(before)

\* C19: a mined block that had been pruned got its payloads back, and the chain
\* of it and a block built on it is valid
C19_Witness ==
    /\ call.method = "restore_merkle_tree"
    /\ call.result
    /\ blk_was.merkle_tree = shrink_to_minimum(input.data)
    /\ Len(get_currently_stored_data(blk.merkle_tree)) >= 2
    /\ BlockchainVerifyLib(<<blk, Successor(blk)>>)

\* C20: restore_merkle_tree(tree) returns true iff tree.verify() holds and the
\* root hash of tree is the block's root hash; then the block's tree is tree
\* and nonce and prev_hash are as before; otherwise the block is unchanged.
C20_RestoreGated ==
    call.method = "restore_merkle_tree" =>
        LET ok == /\ MerkleVerify(call.arg)
                  /\ get_root_hash(call.arg) = get_root_hash(blk_was.merkle_tree)
        IN  /\ call.result <=> ok
            /\ ok => blk = [blk_was EXCEPT !.merkle_tree = call.arg]
            /\ ~ok => blk = blk_was

\* C20: a tree with the block's root hash that does not verify was rejected
\* by a block that holds its payload
C20_Witness ==
    /\ call.method = "restore_merkle_tree"
    /\ ~call.result
    /\ get_root_hash(call.arg) = get_root_hash(blk_was.merkle_tree)
    /\ ~MerkleVerify(call.arg)
    /\ get_currently_stored_data(blk.merkle_tree) # <<>>

\* the imported tree imp is the tree t: same shape, the bytes of the same
\* hash at every node, the same payload or none at every leaf
RECURSIVE Reproduces(_, _)
Reproduces(t, imp) ==
    /\ imp.kind = t.kind
    /\ imp.hash = HashBytes(t.hash)
    /\ IF IsLeaf(t) THEN imp.data = t.data
       ELSE Reproduces(t.left, imp.left) /\ Reproduces(t.right, imp.right)

\* C21: importing the exported text of a tree gives a tree of the same shape
\* with the same hash at every node and the same present or absent payload
\* at every leaf; import verifies nothing, so this holds of trees that do
\* not verify as well.
C21_ExportImportRoundTrip ==
    call.method = "import_xml" =>
        /\ call.arg = export_xml(mtree)
        /\ call.result # None
        /\ Reproduces(mtree, call.result[1])

\* the paths (0 = left, 1 = right) to the leaves of t, from left to right
RECURSIVE LeavesInOrder(_)
LeavesInOrder(t) ==
    IF IsLeaf(t) THEN << <<>> >>
    ELSE LET l == LeavesInOrder(t.left)
             r == LeavesInOrder(t.right)
         IN  [i \in 1..(Len(l) + Len(r)) |->
                 IF i <= Len(l) THEN <<0>> \o l[i] ELSE <<1>> \o r[i - Len(l)]]

\* the node of t at path q
RECURSIVE NodeAt(_, _)
NodeAt(t, q) ==
    IF q = <<>> THEN t
    ELSE IF Head(q) = 0 THEN NodeAt(t.left, Tail(q))
    ELSE NodeAt(t.right, Tail(q))

\* the positions, in left-to-right order, of the leaves of t with hash h
LeavesWithHash(t, h) ==
    {i \in 1..Len(LeavesInOrder(t)) : NodeAt(t, LeavesInOrder(t)[i]).hash = h}

AbsentLeavesWithHash(t, h) ==
    {i \in LeavesWithHash(t, h) : NodeAt(t, LeavesInOrder(t)[i]).data = None}

Least(S) == CHOOSE i \in S : \A j \in S : i <= j

\* C22: restore_element(item) fills the leftmost absent leaf whose hash is
\* digest(item) and returns true, also when a leaf further left with that
\* hash holds its payload; it returns true without an absent leaf to fill
\* when some leaf has the hash; it returns false, the tree unchanged, only
\* if no leaf has the hash (stated for the trees that verify).
C22_RestoreFillsLeftmostAbsent ==
    (call.method = "restore_element" /\ MerkleVerify(mtree_was)) =>
        LET h == Sha256(<<ItemBytes(call.arg)>>)
            absent == AbsentLeavesWithHash(mtree_was, h)
        IN  IF absent # {}
            THEN /\ call.result
                 /\ mtree = WithPayload(mtree_was, LeavesInOrder(mtree_was)[Least(absent)],
                                        call.arg)
            ELSE IF LeavesWithHash(mtree_was, h) # {} THEN call.result
            ELSE ~call.result /\ mtree = mtree_was

\* C23: after forget_all_leaves() on a tree built from S, restore_element
\* called once for each item of S, in any order, restores every leaf and
\* get_currently_stored_data() is S again, also when S repeats an item.
C23_ForgetAllRestoreAll ==
    (call.method = "restore_element" /\ pending = <<>>) =>
        /\ get_currently_stored_data(mtree) = input
        /\ \A i \in 1..Len(LeavesInOrder(mtree)) :
              NodeAt(mtree, LeavesInOrder(mtree)[i]).data # None

\* the paths to all nodes of t, leaves and inner nodes
RECURSIVE Paths(_)
Paths(t) ==
    IF IsLeaf(t) THEN {<<>>}
    ELSE {<<>>} \cup {<<0>> \o q : q \in Paths(t.left)}
                \cup {<<1>> \o q : q \in Paths(t.right)}

\* the number of nodes of t
RECURSIVE NodeCount(_)
NodeCount(t) == IF IsLeaf(t) THEN 1 ELSE 1 + NodeCount(t.left) + NodeCount(t.right)

\* a and b have the same shape and the same hash at every node
SameShapeAndHashes(a, b) ==
    /\ Paths(a) = Paths(b)
    /\ \A q \in Paths(a) :
          /\ NodeAt(a, q).kind = NodeAt(b, q).kind
          /\ NodeAt(a, q).hash = NodeAt(b, q).hash

\* every inner node of t carries the digest of the hashes of its children
InnerHashesFit(t) ==
    \A q \in Paths(t) :
        LET n == NodeAt(t, q)
        IN  IsLeaf(n) \/ n.hash = Sha256(<<get_root_hash(n.left), get_root_hash(n.right)>>)

\* what forget_all_leaves does to shape, hashes and payloads
ForgotAllLeaves ==
    /\ NodeCount(mtree) = NodeCount(mtree_was)
    /\ SameShapeAndHashes(mtree, mtree_was)
    /\ \A q \in Paths(mtree) : IsLeaf(NodeAt(mtree, q)) => NodeAt(mtree, q).data = None
    /\ get_currently_stored_data(mtree) = <<>>

\* C24 as stated: forget_all_leaves() clears the payload of every leaf and
\* keeps the number of nodes, the shape and the hash of every node;
\* afterwards get_currently_stored_data() is empty and verify() is true.
C24_ForgetAllThenVerifies ==
    call.method = "forget_all_leaves" => (ForgotAllLeaves /\ MerkleVerify(mtree))

\* C24 as amended: forget_all_leaves() clears the payload of every leaf and
\* keeps the number of nodes, the shape and the hash of every node;
\* afterwards get_currently_stored_data() is empty, and verify() is true
\* exactly if every inner node carries the digest of its children's hashes,
\* which is so whenever the tree verified before the call.
C24_ForgetAllKeepsHashes ==
    call.method = "forget_all_leaves" =>
        /\ ForgotAllLeaves
        /\ MerkleVerify(mtree) <=> InnerHashesFit(mtree_was)
        /\ MerkleVerify(mtree_was) => MerkleVerify(mtree)

\* C24: a tree of four leaves that verified and held three payloads or more
\* forgot them all
C24_Witness ==
    /\ call.method = "forget_all_leaves"
    /\ MerkleVerify(mtree_was)
    /\ LeafCount(mtree_was) = 4
    /\ Len(get_currently_stored_data(mtree_was)) >= 3
    /\ MerkleVerify(mtree)

\* C25: insert_subtree(candidate) returns true iff contains_hash of the
\* candidate's root hash held for self before the call, i.e. iff some node
\* of self carried that hash; when it returns false the tree is unchanged;
\* when the candidate's root hash is the root hash of self, self becomes the
\* candidate, whatever the two shapes are.
C25_InsertIffContains ==
    call.method = "insert_subtree" =>
        LET h == get_root_hash(call.arg)
        IN  /\ call.result <=> contains_hash(mtree_was, h)
            /\ call.result <=> \E q \in Paths(mtree_was) : NodeAt(mtree_was, q).hash = h
            /\ ~call.result => mtree = mtree_was
            /\ h = get_root_hash(mtree_was) => mtree = call.arg

\* C25: a tree of four leaves was replaced as a whole by a candidate of two
\* leaves with its root hash
C25_Witness ==
    /\ call.method = "insert_subtree"
    /\ call.result
    /\ get_root_hash(call.arg) = get_root_hash(mtree_was)
    /\ LeafCount(mtree_was) = 4
    /\ LeafCount(call.arg) = 2
    /\ mtree = call.arg

\* t with the node at path q replaced by s
RECURSIVE ReplaceAt(_, _, _)
ReplaceAt(t, q, s) ==
    IF q = <<>> THEN s
    ELSE IF Head(q) = 0 THEN [t EXCEPT !.left = ReplaceAt(t.left, Tail(q), s)]
    ELSE [t EXCEPT !.right = ReplaceAt(t.right, Tail(q), s)]

\* path p starts with path q
StartsWith(p, q) == Len(q) <= Len(p) /\ SubSeq(p, 1, Len(q)) = q

\* the paths of t to the nodes with hash h
NodesWithHash(t, h) == {q \in Paths(t) : NodeAt(t, q).hash = h}

\* C26: a successful insert_subtree(candidate) replaces exactly one node of
\* self, one with the candidate's root hash, by the candidate: every node
\* outside the replaced subtree keeps its hash, its children and its
\* payload, and the root hash of self is unchanged.
C26_InsertReplacesOneNode ==
    (call.method = "insert_subtree" /\ call.result) =>
        /\ get_root_hash(mtree) = get_root_hash(mtree_was)
        /\ \E q \in NodesWithHash(mtree_was, get_root_hash(call.arg)) :
              /\ mtree = ReplaceAt(mtree_was, q, call.arg)
              /\ NodeAt(mtree, q) = call.arg
              /\ \A p \in Paths(mtree_was) :
                    ~StartsWith(p, q) =>
                        /\ p \in Paths(mtree)
                        /\ NodeAt(mtree, p).kind = NodeAt(mtree_was, p).kind
                        /\ NodeAt(mtree, p).hash = NodeAt(mtree_was, p).hash
                        /\ ~StartsWith(q, p) => NodeAt(mtree, p) = NodeAt(mtree_was, p)

\* C26: the tree had several nodes with the candidate's root hash, none of
\* them the root, and the insert changed the tree
C26_Witness ==
    /\ call.method = "insert_subtree"
    /\ call.result
    /\ Cardinality(NodesWithHash(mtree_was, get_root_hash(call.arg))) >= 2
    /\ get_root_hash(call.arg) # get_root_hash(mtree_was)
    /\ mtree # mtree_was

\* path p comes before path q in depth-first order (a node, then its left
\* subtree, then its right subtree)
RECURSIVE Before(_, _)
Before(p, q) ==
    IF p = <<>> THEN q # <<>>
    ELSE IF q = <<>> THEN FALSE
    ELSE IF Head(p) = Head(q) THEN Before(Tail(p), Tail(q))
    ELSE Head(p) = 0

FirstDepthFirst(S) == CHOOSE p \in S : \A q \in S \ {p} : Before(p, q)

\* C27: forget_subtree(h) returns true iff some node of the tree has hash h;
\* it then turns the first such node in depth-first order (self, left,
\* right) into an absent leaf carrying h and leaves every other node as it
\* was; with the root hash it does what shrink_to_minimum does; when it
\* returns false the tree is unchanged.
C27_ForgetSubtreeFirstMatch ==
    call.method = "forget_subtree" =>
        LET h == call.arg
            found == NodesWithHash(mtree_was, h)
        IN  /\ call.result <=> found # {}
            /\ call.result =>
                  mtree = ReplaceAt(mtree_was, FirstDepthFirst(found), Leaf(h, None))
            /\ h = get_root_hash(mtree_was) => mtree = shrink_to_minimum(mtree_was)
            /\ ~call.result => mtree = mtree_was

\* C27: the tree had two inner nodes with hash h below the root; the first
\* was collapsed, the second kept its payloads
C27_Witness ==
    /\ call.method = "forget_subtree"
    /\ call.result
    /\ NodesWithHash(mtree_was, call.arg) = {<<0>>, <<1>>}
    /\ ~IsLeaf(mtree_was.left)
    /\ mtree.left = Leaf(call.arg, None)
    /\ Len(get_currently_stored_data(mtree.right)) = 2

\* the positions, from left to right, of the leaves of t that hold item x
LeavesHolding(t, x) ==
    {i \in 1..Len(LeavesInOrder(t)) : NodeAt(t, LeavesInOrder(t)[i]).data = Some(x)}

\* C28: forget_leaf(item) clears the payload of exactly one leaf, the
\* leftmost leaf whose present payload equals item, keeps that leaf's hash
\* and returns true; if no present leaf equals item it returns false and
\* the tree is unchanged.
C28_ForgetLeafLeftmost ==
    call.method = "forget_leaf" =>
        LET holding == LeavesHolding(mtree_was, call.arg)
        IN  IF holding # {}
            THEN LET q == LeavesInOrder(mtree_was)[Least(holding)]
                 IN  /\ call.result
                     /\ mtree = ReplaceAt(mtree_was, q,
                                          Leaf(NodeAt(mtree_was, q).hash, None))
                     /\ LeavesHolding(mtree, call.arg) = holding \ {Least(holding)}
            ELSE ~call.result /\ mtree = mtree_was

\* C28: two leaves or more held the item, the first of them not the
\* leftmost leaf of the tree
C28_Witness ==
    /\ call.method = "forget_leaf"
    /\ call.result
    /\ Cardinality(LeavesHolding(mtree_was, call.arg)) >= 2
    /\ Least(LeavesHolding(mtree_was, call.arg)) > 1

\* a and b have the same shape
SameShape(a, b) ==
    /\ Paths(a) = Paths(b)
    /\ \A q \in Paths(a) : NodeAt(a, q).kind = NodeAt(b, q).kind

\* C29 as stated: forget_leaf, forget_all_leaves, restore_element,
\* restore_subtree and insert_subtree never change the number of nodes or
\* the shape (insert_subtree taken with candidates that verify);
\* shrink_to_minimum, directly or through forget_subtree, only reduces the
\* number of nodes.
C29_NodeCountFixed ==
    /\ call.method \in {"forget_leaf", "forget_all_leaves", "restore_element",
                        "restore_subtree"} =>
          NodeCount(mtree) = NodeCount(mtree_was) /\ SameShape(mtree, mtree_was)
    /\ (call.method = "insert_subtree" /\ MerkleVerify(call.arg)) =>
          NodeCount(mtree) = NodeCount(mtree_was) /\ SameShape(mtree, mtree_was)
    /\ call.method \in {"shrink_to_minimum", "forget_subtree"} =>
          NodeCount(mtree) <= NodeCount(mtree_was)

\* C29 as amended: forget_leaf, forget_all_leaves, restore_element and
\* restore_subtree never change the number of nodes or the shape;
\* shrink_to_minimum and forget_subtree never increase the number of nodes;
\* a successful insert_subtree puts the candidate in the place of one node,
\* so the number of nodes changes by the difference of the two, up or down,
\* and a failed one changes nothing.
C29_NodeCountChangesByInsertOnly ==
    /\ call.method \in {"forget_leaf", "forget_all_leaves", "restore_element",
                        "restore_subtree"} =>
          NodeCount(mtree) = NodeCount(mtree_was) /\ SameShape(mtree, mtree_was)
    /\ call.method \in {"shrink_to_minimum", "forget_subtree"} =>
          NodeCount(mtree) <= NodeCount(mtree_was)
    /\ call.method = "insert_subtree" =>
          IF call.result
          THEN \E q \in NodesWithHash(mtree_was, get_root_hash(call.arg)) :
                   NodeCount(mtree) = NodeCount(mtree_was)
                                        - NodeCount(NodeAt(mtree_was, q))
                                        + NodeCount(call.arg)
          ELSE NodeCount(mtree) = NodeCount(mtree_was) /\ SameShape(mtree, mtree_was)

\* C29: insert_subtree put a subtree that verifies in the place of a pruned
\* node, and the tree, which verifies, has more nodes than before
C29_Witness ==
    /\ call.method = "insert_subtree"
    /\ call.result
    /\ MerkleVerify(call.arg)
    /\ MerkleVerify(mtree)
    /\ NodeCount(mtree) > NodeCount(mtree_was)
    /\ get_root_hash(call.arg) # get_root_hash(mtree_was)

\* every node of a that is not strictly below path q0 is at the same path of
\* b with the same hash
HashesKeptOutside(a, b, q0) ==
    \A p \in Paths(a) :
        (p = q0 \/ ~StartsWith(p, q0)) =>
            p \in Paths(b) /\ NodeAt(a, p).hash = NodeAt(b, p).hash

\* C30: no tree operation changes a stored hash.  After any sequence of
\* calls the root hash is the root hash at construction.  Every call leaves
\* each node it keeps with the hash it had: forget_leaf, forget_all_leaves,
\* forget_subtree, shrink_to_minimum, restore_element and restore_subtree
\* at every node, insert_subtree at every node that is not part of the
\* candidate it put in (whose nodes carry the hashes the candidate was
\* built with).  In a tree that verifies, every leaf at the place of a leaf
\* of the tree as constructed carries that leaf's hash, payload present or
\* pruned.
C30_HashesNeverChange ==
    /\ get_root_hash(mtree) = get_root_hash(MerkleTreeNew(input))
    /\ call.method \in {"forget_leaf", "forget_all_leaves", "forget_subtree",
                        "shrink_to_minimum", "restore_element", "restore_subtree",
                        "import_xml"} =>
          \A p \in Paths(mtree) :
              p \in Paths(mtree_was) /\ NodeAt(mtree, p).hash = NodeAt(mtree_was, p).hash
    /\ call.method = "insert_subtree" =>
          IF call.result
          THEN \E q0 \in NodesWithHash(mtree_was, get_root_hash(call.arg)) :
                   /\ HashesKeptOutside(mtree, mtree_was, q0)
                   /\ NodeAt(mtree, q0) = call.arg
          ELSE mtree = mtree_was
    /\ MerkleVerify(mtree) =>
          \A p \in Paths(mtree) \cap Paths(MerkleTreeNew(input)) :
              NodeAt(mtree, p).hash = NodeAt(MerkleTreeNew(input), p).hash

\* C30: the last of the four payloads of a tree was pruned, and the tree has
\* the shape and the hashes it was constructed with
C30_Witness ==
    /\ call.method = "forget_leaf"
    /\ call.result
    /\ LeafCount(mtree) = 4
    /\ get_currently_stored_data(mtree) = <<>>
    /\ SameShapeAndHashes(mtree, MerkleTreeNew(input))

\* C31: a tree that verifies keeps verifying.  The tree MerkleTree::new
\* builds verifies, and a call of forget_leaf, forget_all_leaves,
\* forget_subtree, shrink_to_minimum, restore_element with any item, or
\* insert_subtree with a candidate that verifies, made on a tree that
\* verifies, leaves a tree that verifies.  A tree that verified before a call
\* and does not verify after it was handed, by insert_subtree, a candidate
\* that does not verify, and took it.
C31_VerifyStaysTrue ==
    /\ call.method = "new" => MerkleVerify(mtree)
    /\ (/\ MerkleVerify(mtree_was)
        /\ call.method \in {"forget_leaf", "forget_all_leaves", "forget_subtree",
                            "shrink_to_minimum", "restore_element", "insert_subtree"}
        /\ call.method = "insert_subtree" => MerkleVerify(call.arg))
       => MerkleVerify(mtree)
    /\ (MerkleVerify(mtree_was) /\ ~MerkleVerify(mtree)) =>
          /\ call.method = "insert_subtree"
          /\ call.result
          /\ ~MerkleVerify(call.arg)

\* C31: a pruned payload was put back below the root of a tree that
\* verifies, into a leaf whose payload had been forgotten, and the tree
\* verifies
C31_Witness ==
    /\ call.method = "restore_element"
    /\ call.result
    /\ MerkleVerify(mtree_was)
    /\ ~IsLeaf(mtree)
    /\ Len(get_currently_stored_data(mtree)) = Len(get_currently_stored_data(mtree_was)) + 1
    /\ MerkleVerify(mtree)

\* the node n, taken alone, is as verify wants it: a leaf with a payload has
\* the digest of the payload as its hash, a leaf without payload is fine
\* whatever its hash, an inner node has the digest of its children's hashes
NodeFits(n) ==
    IF IsLeaf(n)
    THEN n.data = None \/ n.hash = Sha256(<<ItemBytes(n.data[1])>>)
    ELSE n.hash = Sha256(<<get_root_hash(n.left), get_root_hash(n.right)>>)

\* the positions of the nodes of t that are not as verify wants them
Misfits(t) == {q \in Paths(t) : ~NodeFits(NodeAt(t, q))}

\* C32: verify() is true exactly if every node of the tree fits: every leaf
\* with a payload has the digest of the payload as its hash and every inner
\* node the digest of its children's hashes.  A leaf without payload
\* verifies whatever its hash, and one node that does not fit, at any
\* depth, makes verify() false for the tree and for every subtree it is in.
C32_VerifyIffEveryNodeFits ==
    \A t \in {mtree, mtree_was} :
        /\ MerkleVerify(t) <=> Misfits(t) = {}
        /\ \A q \in Paths(t) :
              LET n == NodeAt(t, q)
              IN  /\ (IsLeaf(n) /\ n.data = None) => MerkleVerify(n)
                  /\ MerkleVerify(n) <=> \A p \in Misfits(t) : ~StartsWith(p, q)

\* C32: one node below the root does not fit, the root and all other nodes
\* do, a leaf without payload is in the tree, and verify() is false
C32_Witness ==
    /\ Cardinality(Misfits(mtree)) = 1
    /\ \E q \in Misfits(mtree) : Len(q) >= 1
    /\ \E q \in Paths(mtree) : IsLeaf(NodeAt(mtree, q)) /\ NodeAt(mtree, q).data = None
    /\ ~MerkleVerify(mtree)

\* C33: calculate_nonce() searches upwards from the nonce the block holds.
\* It returns the nonce it leaves in the block, that nonce is not below the
\* one the block held and satisfies verify_nonce(), every nonce from the
\* starting one up to it fails verify_nonce(), and nothing but the nonce
\* changes.  On a block whose nonce satisfies verify_nonce() already it
\* returns that nonce and changes nothing.
C33_LeastNonceFromStart ==
    call.method = "calculate_nonce" =>
        /\ call.result = blk.nonce
        /\ blk = [blk_was EXCEPT !.nonce = blk.nonce]
        /\ blk.nonce >= blk_was.nonce
        /\ verify_nonce(blk)
        /\ \A n \in blk_was.nonce..(blk.nonce - 1) : ~verify_nonce([blk_was EXCEPT !.nonce = n])
        /\ verify_nonce(blk_was) => blk = blk_was

\* C33: the search started at a nonce above 0 that fails the target, with
\* a nonce below it that would have satisfied the target, and passed over
\* several nonces
C33_Witness ==
    /\ call.method = "calculate_nonce"
    /\ blk_was.nonce > 0
    /\ ~verify_nonce(blk_was)
    /\ \E n \in 0..(blk_was.nonce - 1) : verify_nonce([blk_was EXCEPT !.nonce = n])
    /\ blk.nonce > blk_was.nonce + 2

C36_RootCommitsToSequence ==
    call.method = "new" =>
        \A other \in ItemSeqs(MaxLen) :
            (/\ Len(other) = Len(input)
             /\ get_root_hash(MerkleTreeNew(other)) = get_root_hash(mtree))
            => other = input

\* the sequence p is the beginning of the sequence q
IsPrefix(p, q) == Len(p) <= Len(q) /\ SubSeq(q, 1, Len(p)) = p

\* C37: the chain is append-only.  Every step of any writer leaves the
\* blocks stored before it where they were and as they were, and adds at
\* most one block at the end: the block sequence before the step is a
\* prefix of the one after it, so the sequence at any earlier time is a
\* prefix of the sequence at every later time and the length never
\* decreases.
C37_AppendOnly ==
    [][/\ IsPrefix(blocks, blocks')
       /\ Len(blocks') <= Len(blocks) + 1]_vars

\* C37: the chain grew while a writer was mining; the chain that writer
\* read at the start of its call is the beginning of the longer one stored
\* now, and the writer's own block was rejected
C37_Witness ==
    \E w \in Writers :
        /\ pc[w] = "done"
        /\ ret[w] = "false"
        /\ Len(start_blocks[w]) >= 1
        /\ Len(blocks) > Len(start_blocks[w])
        /\ IsPrefix(start_blocks[w], blocks)

\* the writers inside the check-and-push of append_block
InCheckAndPush == {w \in Writers : pc[w] \in {"check", "push"}}

\* C38: at most one writer is inside the check-and-push of append_block,
\* and it holds the append lock.  A writer whose append_block has returned,
\* with true or with false, does not hold the lock; when no writer is
\* between taking and releasing it the lock is free, so a writer waiting
\* for it can take it, also after a rejected append.
C38_ExclusionAndRelease ==
    /\ Cardinality(InCheckAndPush) <= 1
    /\ \A w \in InCheckAndPush : append_mutex = w
    /\ \A w \in Writers :
          (pc[w] = "done" /\ ret[w] \in {"true", "false"}) => append_mutex # w
    /\ (\A w \in Writers : pc[w] \notin {"check", "push", "unlock"}) =>
          /\ append_mutex = NoWriter
          /\ \A v \in Writers : pc[v] = "lock" => ENABLED Lock(v)

\* C38: a writer's append was rejected and has returned, and the other
\* writer holds the lock and is about to push a block that passed the
\* checks
C38_Witness ==
    \E w \in Writers, v \in Writers :
        /\ pc[w] = "done"
        /\ ret[w] = "false"
        /\ pc[v] = "push"
        /\ append_mutex = v
        /\ valid_block[v] /\ valid_link[v]

====
